---- MODULE Spec2Model ----
(***************************************************************************)
(* Load-target resolution of dagster's command line                        *)
(* (python_modules/dagster/dagster/cli/workspace/cli_target.py).           *)
(*                                                                         *)
(* kwargs is the option map click hands to a command.  Python values are   *)
(* tagged records, so that None, "", 0, False and () stay distinct while   *)
(* all of them are falsy, as in the source.  An exception is a value: a    *)
(* call either returns [raised |-> FALSE, value |-> v] or                  *)
(* [raised |-> TRUE, type |-> t, message |-> words]; a message is the      *)
(* sequence of the words of its text.                                      *)
(***************************************************************************)
EXTENDS Integers, Sequences, FiniteSets, TLC

VARIABLES
    kwargs,                 \* the option map of the command
    workspace_yaml_exists,  \* os.path.exists("workspace.yaml")
    pc,                     \* "start" before the call, "done" after it
    result,                 \* what the call returned or raised
    called,                 \* the function the command calls
    candidates,             \* names of the collection selected from, in iteration order
    requested,              \* the name passed to a selection (None when not given)
    failed,                 \* the names of the locations whose load failed
    targets,                \* the loadable targets of the python file / module / package
    loadable,               \* whether that file / module / package can be loaded
    enumerated,             \* whether the call ran get_loadable_targets
    repo_dict,              \* names of the repositories of a location
    external_pipelines,     \* names of the pipelines of a repository
    stack,                  \* the context managers entered and not yet exited
    pending,                \* the exception in flight, or NoException
    trace,                  \* what has happened so far, in order
    hierarchy,              \* the loggers a record passes, from the one logged to upwards
    logged,                 \* the record as the caller logged it
    record,                 \* the log record being handled
    logger,                 \* the place in hierarchy of the logger now calling its handlers
    BUILDKITE,              \* whether the tests run in a container on Buildkite
    isfile                  \* os.path.isfile("docker-compose.yml")

vars ==
    <<kwargs, workspace_yaml_exists, pc, result, called, candidates, requested,
      failed, targets, loadable, enumerated, repo_dict, external_pipelines, stack,
      pending, trace, hierarchy, logged, record, logger, BUILDKITE,
      isfile>>

\* The state of a command that holds a workspace open.
scope == <<repo_dict, external_pipelines, stack, pending, trace>>

\* What a call reads and never writes.
inputs ==
    <<kwargs, workspace_yaml_exists, candidates, requested, failed, targets, loadable,
      hierarchy, logged, BUILDKITE, isfile>>

\* The state of the handling of a log record.
handling == <<record, logger>>

\* Longest tuple of --workspace paths the model enumerates.
MaxPaths == 2

\* Largest collection of locations, repositories or pipelines selected from.
MaxCandidates == 3

\* Largest number of loadable targets in one file, module or package.
MaxTargets == 2

\* Largest number of locations in the workspace a command opens.
MaxLocations == 2

\* Longest chain of loggers a record propagates through.
MaxLoggers == 3

(***************************************************************************)
(* Python values                                                           *)
(***************************************************************************)
None == [k |-> "None"]
PyStr(s) == [k |-> "str", s |-> s]
PyInt(n) == [k |-> "int", n |-> n]
PyBool(b) == [k |-> "bool", b |-> b]
PyTuple(q) == [k |-> "tuple", q |-> q]
Text(words) == [k |-> "text", words |-> words]

\* Python truth value of v, as `if v:` / `not v` / `v or d` test it.
Truthy(v) ==
    CASE v.k = "None" -> FALSE
      [] v.k = "str" -> v.s # ""
      [] v.k = "int" -> v.n # 0
      [] v.k = "bool" -> v.b
      [] v.k = "tuple" -> Len(v.q) > 0
      [] v.k = "text" -> Len(v.words) > 0

\* dict.get(key): the value, or None for a key the dict does not hold.
Get(d, key) == IF key \in DOMAIN d THEN d[key] ELSE None

Return(v) == [raised |-> FALSE, value |-> v]
Raise(type, message) == [raised |-> TRUE, type |-> type, message |-> message]

(***************************************************************************)
(* cli_target.py                                                           *)
(***************************************************************************)
INVALID_CLI_ARGUMENTS_MESSAGE ==
    <<"Invalid", "set", "of", "CLI", "arguments", "for", "loading",
      "repository/pipeline.", "See", "--help", "for", "details.">>

NO_ARGUMENTS_MESSAGE ==
    <<"No", "arguments", "given", "and", "workspace.yaml", "not", "found.">>

_cli_load_invariant(condition, msg) ==
    LET m == IF Truthy(msg) THEN msg.words ELSE INVALID_CLI_ARGUMENTS_MESSAGE
    IN  IF ~condition THEN Raise("UsageError", m) ELSE Return(None)

\* The variant of the loop that puts the rejected key into the message.
RECURSIVE _check_cli_arguments_none_naming_key(_, _)
_check_cli_arguments_none_naming_key(kw, keys) ==
    IF keys = <<>> THEN Return(None)
    ELSE LET r == _cli_load_invariant(~Truthy(Get(kw, Head(keys))),
                                      Text(<<"Invalid", "argument", Head(keys)>>))
         IN  IF r.raised THEN r
             ELSE _check_cli_arguments_none_naming_key(kw, Tail(keys))

RECURSIVE _check_cli_arguments_none(_, _)
_check_cli_arguments_none(kw, keys) ==
    IF keys = <<>> THEN Return(None)
    ELSE LET r == _cli_load_invariant(~Truthy(Get(kw, Head(keys))), None)
         IN  IF r.raised THEN r
             ELSE _check_cli_arguments_none(kw, Tail(keys))

RECURSIVE are_all_keys_empty(_, _)
are_all_keys_empty(kw, keys) ==
    IF keys = <<>> THEN TRUE
    ELSE IF Truthy(Get(kw, Head(keys))) THEN FALSE
    ELSE are_all_keys_empty(kw, Tail(keys))

WORKSPACE_CLI_ARGS ==
    <<"workspace", "python_file", "working_directory", "empty_working_directory",
      "package_name", "module_name", "attribute", "repository_yaml",
      "grpc_host", "grpc_port", "grpc_socket">>

\* os.getcwd() of the resolving process.
getcwd == PyStr("/cwd")

\* The working directory that prefers an explicit directory to the flag.
get_working_directory_from_kwargs_explicit_first(kw) ==
    IF Truthy(Get(kw, "working_directory")) THEN Get(kw, "working_directory")
    ELSE IF Truthy(Get(kw, "empty_working_directory")) THEN None
    ELSE getcwd

get_working_directory_from_kwargs(kw) ==
    IF Truthy(Get(kw, "empty_working_directory")) THEN None
    ELSE IF Truthy(Get(kw, "working_directory")) THEN Get(kw, "working_directory")
    ELSE getcwd

EmptyWorkspaceTarget == [kind |-> "EmptyWorkspaceTarget"]
WorkspaceFileTarget(paths) == [kind |-> "WorkspaceFileTarget", paths |-> paths]
PythonFileTarget(python_file, attribute, working_directory, location_name) ==
    [kind |-> "PythonFileTarget", python_file |-> python_file,
     attribute |-> attribute, working_directory |-> working_directory,
     location_name |-> location_name]
ModuleTarget(module_name, attribute, location_name) ==
    [kind |-> "ModuleTarget", module_name |-> module_name,
     attribute |-> attribute, location_name |-> location_name]
PackageTarget(package_name, attribute, location_name) ==
    [kind |-> "PackageTarget", package_name |-> package_name,
     attribute |-> attribute, location_name |-> location_name]
GrpcServerTarget(port, socket, host, location_name) ==
    [kind |-> "GrpcServerTarget", port |-> port, socket |-> socket,
     host |-> host, location_name |-> location_name]

\* The keys each branch of created_workspace_load_target requires to be unset.
WORKSPACE_EXCLUDED_without_attribute ==
    <<"python_file", "working_directory", "empty_working_directory",
      "module_name", "package_name", "grpc_host", "grpc_port", "grpc_socket">>

WORKSPACE_EXCLUDED ==
    <<"python_file", "working_directory", "empty_working_directory",
      "module_name", "package_name", "attribute", "grpc_host", "grpc_port",
      "grpc_socket">>

PYTHON_FILE_EXCLUDED_without_grpc_host ==
    <<"module_name", "package_name", "grpc_port", "grpc_socket">>

PYTHON_FILE_EXCLUDED_without_module_name ==
    <<"package_name", "grpc_host", "grpc_port", "grpc_socket">>

PYTHON_FILE_EXCLUDED ==
    <<"module_name", "package_name", "grpc_host", "grpc_port", "grpc_socket">>

MODULE_EXCLUDED_without_grpc_host ==
    <<"package_name", "working_directory", "empty_working_directory",
      "grpc_port", "grpc_socket">>

MODULE_EXCLUDED ==
    <<"package_name", "working_directory", "empty_working_directory",
      "grpc_host", "grpc_port", "grpc_socket">>

PACKAGE_EXCLUDED ==
    <<"working_directory", "empty_working_directory", "grpc_host", "grpc_port",
      "grpc_socket">>

GRPC_PORT_EXCLUDED ==
    <<"attribute", "working_directory", "empty_working_directory", "grpc_socket">>

GRPC_SOCKET_EXCLUDED_with_grpc_host ==
    <<"attribute", "working_directory", "empty_working_directory", "grpc_host">>

GRPC_SOCKET_EXCLUDED ==
    <<"attribute", "working_directory", "empty_working_directory">>

\* list(paths) built back to front.
RECURSIVE list_reversed(_)
list_reversed(t) == IF t.q = <<>> THEN <<>> ELSE Append(list_reversed(PyTuple(Tail(t.q))), Head(t.q))

\* list(paths): the elements of the tuple, in its order.
list(t) == [i \in 1..Len(t.q) |-> t.q[i]]

\* The host of a GrpcServerTarget, without the fallback to localhost.
grpc_host_or_localhost_without_default(kw) == Get(kw, "grpc_host")

grpc_host_or_localhost(kw) ==
    IF Truthy(Get(kw, "grpc_host")) THEN Get(kw, "grpc_host") ELSE PyStr("localhost")

\* The no-argument branch with the default file looked up before the flag.
no_arguments_target_file_first(kw, exists) ==
    IF exists THEN Return(WorkspaceFileTarget(<<"workspace.yaml">>))
    ELSE IF Truthy(Get(kw, "empty_workspace")) THEN Return(EmptyWorkspaceTarget)
    ELSE Raise("UsageError", NO_ARGUMENTS_MESSAGE)

no_arguments_target(kw, exists) ==
    IF Truthy(Get(kw, "empty_workspace")) THEN Return(EmptyWorkspaceTarget)
    ELSE IF exists THEN Return(WorkspaceFileTarget(<<"workspace.yaml">>))
    ELSE Raise("UsageError", NO_ARGUMENTS_MESSAGE)

\* The last branch falling back to the no-argument result instead of failing.
no_governing_option_fallback(kw, exists) == no_arguments_target(kw, exists)

no_governing_option(kw, exists) == _cli_load_invariant(FALSE, None)

\* exists: the value of os.path.exists("workspace.yaml") in the process.
created_workspace_load_target(kw, exists) ==
    IF are_all_keys_empty(kw, WORKSPACE_CLI_ARGS) THEN no_arguments_target(kw, exists)
    ELSE IF Truthy(Get(kw, "workspace")) THEN
        LET c == _check_cli_arguments_none(kw, WORKSPACE_EXCLUDED)
        IN  IF c.raised THEN c
            ELSE Return(WorkspaceFileTarget(list(kw["workspace"])))
    ELSE IF Truthy(Get(kw, "python_file")) THEN
        LET c == _check_cli_arguments_none(kw, PYTHON_FILE_EXCLUDED)
        IN  IF c.raised THEN c
            ELSE Return(PythonFileTarget(Get(kw, "python_file"), Get(kw, "attribute"),
                                         get_working_directory_from_kwargs(kw), None))
    ELSE IF Truthy(Get(kw, "module_name")) THEN
        LET c == _check_cli_arguments_none(kw, MODULE_EXCLUDED)
        IN  IF c.raised THEN c
            ELSE Return(ModuleTarget(Get(kw, "module_name"), Get(kw, "attribute"), None))
    ELSE IF Truthy(Get(kw, "package_name")) THEN
        LET c == _check_cli_arguments_none(kw, PACKAGE_EXCLUDED)
        IN  IF c.raised THEN c
            ELSE Return(PackageTarget(Get(kw, "package_name"), Get(kw, "attribute"), None))
    ELSE IF Truthy(Get(kw, "grpc_port")) THEN
        LET c == _check_cli_arguments_none(kw, GRPC_PORT_EXCLUDED)
        IN  IF c.raised THEN c
            ELSE Return(GrpcServerTarget(Get(kw, "grpc_port"), None,
                                         grpc_host_or_localhost(kw), None))
    ELSE IF Truthy(Get(kw, "grpc_socket")) THEN
        LET c == _check_cli_arguments_none(kw, GRPC_SOCKET_EXCLUDED)
        IN  IF c.raised THEN c
            ELSE Return(GrpcServerTarget(None, Get(kw, "grpc_socket"),
                                         grpc_host_or_localhost(kw), None))
    ELSE no_governing_option(kw, exists)

(***************************************************************************)
(* The option maps click builds from workspace_target_click_options():     *)
(* flags default to False, --workspace (multiple) to the empty tuple, every *)
(* other option to None.                                                   *)
(***************************************************************************)
WorkspacePaths == {"a.yaml", "b.yaml"}

RECURSIVE SeqsUpTo(_, _)
SeqsUpTo(S, n) ==
    IF n = 0 THEN {<<>>}
    ELSE LET shorter == SeqsUpTo(S, n - 1)
         IN  shorter \cup {Append(q, x) : q \in shorter, x \in S}

Flags == {PyBool(FALSE), PyBool(TRUE)}

OptionMaps ==
    [empty_workspace : Flags,
     workspace : {PyTuple(q) : q \in SeqsUpTo(WorkspacePaths, MaxPaths)},
     empty_working_directory : Flags,
     working_directory : {None, PyStr("/wd")},
     python_file : {None, PyStr("repo.py")},
     package_name : {None, PyStr("pkg")},
     module_name : {None, PyStr("pkg.defs")},
     attribute : {None, PyStr("main_repo")},
     grpc_port : {None, PyInt(0), PyInt(4000)},
     grpc_socket : {None, PyStr("/tmp/grpc.sock")},
     grpc_host : {None, PyStr(""), PyStr("example.org")}]

NotCalled == [raised |-> FALSE, value |-> [kind |-> "NotCalled"]]

\* Nothing to select from and nothing to load.
NoSelectionInputs ==
    /\ candidates = <<>>
    /\ requested = None
    /\ failed = {}

NoPythonTarget ==
    /\ targets = <<>>
    /\ loadable = TRUE

NoException == Return(None)

NoRecord == [kind |-> "NoRecord"]

\* No record is logged and no container is composed.
NoLogging ==
    /\ hierarchy = <<>>
    /\ logged = NoRecord
    /\ record = NoRecord
    /\ logger = 0
    /\ BUILDKITE = FALSE
    /\ isfile = FALSE

\* No context manager was entered and nothing has happened.
NoScope ==
    /\ repo_dict = <<>>
    /\ external_pipelines = <<>>
    /\ stack = <<>>
    /\ pending = NoException
    /\ trace = <<>>

Init ==
    /\ kwargs \in OptionMaps
    /\ workspace_yaml_exists \in BOOLEAN
    /\ pc = "start"
    /\ result = NotCalled
    /\ called = "created_workspace_load_target"
    /\ enumerated = FALSE
    /\ NoSelectionInputs
    /\ NoPythonTarget
    /\ NoScope
    /\ NoLogging

\* A command calls created_workspace_load_target(kwargs).
CallCreatedWorkspaceLoadTarget ==
    /\ pc = "start"
    /\ result' = created_workspace_load_target(kwargs, workspace_yaml_exists)
    /\ pc' = "done"
    /\ called = "created_workspace_load_target"
    /\ UNCHANGED <<inputs, called, enumerated, scope, handling>>

Next == CallCreatedWorkspaceLoadTarget

Spec == Init /\ [][Next]_vars

(***************************************************************************)
(* Vocabulary of the properties                                            *)
(***************************************************************************)
\* The ten target options of the resolution rules.
TargetOptions ==
    {"workspace", "python_file", "working_directory", "empty_working_directory",
     "package_name", "module_name", "attribute", "grpc_host", "grpc_port",
     "grpc_socket"}

\* The governing options, highest priority first.
GoverningOptions ==
    <<"workspace", "python_file", "module_name", "package_name", "grpc_port",
      "grpc_socket">>

\* An option is present when it was given a value that is not empty.
Present(key) == Truthy(Get(kwargs, key))

PresentOptions == {key \in TargetOptions : Present(key)}

Governing == {GoverningOptions[i] : i \in DOMAIN GoverningOptions}

\* The highest-priority governing option present (defined when there is one).
HighestGoverning ==
    LET i == CHOOSE j \in DOMAIN GoverningOptions :
                 /\ Present(GoverningOptions[j])
                 /\ \A h \in 1..(j - 1) : ~Present(GoverningOptions[h])
    IN  GoverningOptions[i]

\* The variant each governing option selects and the options that variant uses.
VariantOf(g) ==
    CASE g = "workspace" -> "WorkspaceFileTarget"
      [] g = "python_file" -> "PythonFileTarget"
      [] g = "module_name" -> "ModuleTarget"
      [] g = "package_name" -> "PackageTarget"
      [] g = "grpc_port" -> "GrpcServerTarget"
      [] g = "grpc_socket" -> "GrpcServerTarget"

FieldsOf(g) ==
    CASE g = "workspace" -> {"workspace"}
      [] g = "python_file" ->
           {"python_file", "attribute", "working_directory", "empty_working_directory"}
      [] g = "module_name" -> {"module_name", "attribute"}
      [] g = "package_name" -> {"package_name", "attribute"}
      [] g = "grpc_port" -> {"grpc_port", "grpc_host"}
      [] g = "grpc_socket" -> {"grpc_socket", "grpc_host"}

Done == pc = "done"
Succeeded == Done /\ ~result.raised
Failed == Done /\ result.raised
Returned(target) == Done /\ result = Return(target)

\* The one failure the exclusion checks and the last branch raise: a
\* UsageError with the text "Invalid set of CLI arguments ...".  The code has
\* no other way to signal ConflictingTargets or InvalidTargetCombination.
InvalidCliArguments ==
    /\ Failed
    /\ result.type = "UsageError"
    /\ result.message =
         <<"Invalid", "set", "of", "CLI", "arguments", "for", "loading",
           "repository/pipeline.", "See", "--help", "for", "details.">>

NoTargetSpecified ==
    /\ Failed
    /\ result.type = "UsageError"
    /\ result.message =
         <<"No", "arguments", "given", "and", "workspace.yaml", "not", "found.">>

(***************************************************************************)
(* C1..C10: created_workspace_load_target                                  *)
(***************************************************************************)

\* C1: with none of the ten target options present, the result is Empty when
\* the empty-workspace flag is set (also when workspace.yaml exists), else
\* WorkspaceFiles(["workspace.yaml"]) when that file exists, else the failure
\* "No arguments given and workspace.yaml not found."
C1_NoOptionsFallback ==
    (Done /\ PresentOptions = {}) =>
        IF Truthy(kwargs.empty_workspace)
        THEN Returned([kind |-> "EmptyWorkspaceTarget"])
        ELSE IF workspace_yaml_exists
        THEN Returned([kind |-> "WorkspaceFileTarget", paths |-> <<"workspace.yaml">>])
        ELSE NoTargetSpecified

C1_Witness ==
    /\ Done
    /\ PresentOptions = {}
    /\ Truthy(kwargs.empty_workspace)
    /\ workspace_yaml_exists
    /\ Returned([kind |-> "EmptyWorkspaceTarget"])

\* C2: a successful resolution with some target option present returns the
\* variant of the highest-priority governing option present, and every target
\* option present is one of that variant's fields.
C2_Precedence ==
    (Succeeded /\ PresentOptions # {}) =>
        /\ PresentOptions \cap Governing # {}
        /\ result.value.kind = VariantOf(HighestGoverning)
        /\ PresentOptions \subseteq FieldsOf(HighestGoverning)

C2_Witness ==
    /\ Succeeded
    /\ Present("module_name")
    /\ Present("attribute")
    /\ result.value.kind = "ModuleTarget"

\* C3: an option map holding two target options that no single rule admits
\* together (in particular two governing options) fails with the
\* invalid-arguments UsageError and returns no target.
C3_ConflictingOptionsFail ==
    (Done /\ \E a, b \in PresentOptions :
                 \A g \in Governing : ~({a, b} \subseteq FieldsOf(g)))
        => InvalidCliArguments

C3_Witness ==
    /\ Done
    /\ Present("module_name")
    /\ Present("grpc_port")
    /\ PresentOptions = {"module_name", "grpc_port"}
    /\ InvalidCliArguments

\* The five option groups: the options that belong to each variant.
OptionGroups == {"workspace", "python_file", "module_name", "package_name", "grpc"}

GroupOptions(G) ==
    CASE G = "workspace" -> {"workspace"}
      [] G = "python_file" ->
           {"python_file", "attribute", "working_directory", "empty_working_directory"}
      [] G = "module_name" -> {"module_name", "attribute"}
      [] G = "package_name" -> {"package_name", "attribute"}
      [] G = "grpc" -> {"grpc_host", "grpc_port", "grpc_socket"}

GroupVariant(G) ==
    CASE G = "workspace" -> "WorkspaceFileTarget"
      [] G = "python_file" -> "PythonFileTarget"
      [] G = "module_name" -> "ModuleTarget"
      [] G = "package_name" -> "PackageTarget"
      [] G = "grpc" -> "GrpcServerTarget"

\* C4 as stated: whenever the options present all belong to one group, the
\* resolution succeeds with that group's variant.
C4_Original ==
    (Done /\ PresentOptions # {}
          /\ \E G \in OptionGroups : PresentOptions \subseteq GroupOptions(G))
        => /\ Succeeded
           /\ \E G \in OptionGroups :
                  /\ PresentOptions \subseteq GroupOptions(G)
                  /\ result.value.kind = GroupVariant(G)

\* C4 (amended): whenever the options present all belong to one group and
\* include the group's governing option (for a server exactly one of grpc_port
\* and grpc_socket), the resolution succeeds with that group's variant.
C4_SingleGroupSucceeds ==
    \A g \in Governing :
        (Done /\ Present(g) /\ PresentOptions \subseteq FieldsOf(g))
            => /\ Succeeded
               /\ result.value.kind = VariantOf(g)

C4_Witness ==
    /\ Succeeded
    /\ PresentOptions = {"grpc_socket", "grpc_host"}
    /\ result.value.kind = "GrpcServerTarget"

\* C5: with workspace paths given, the result is WorkspaceFiles(the given paths
\* in the given order) when the nine other target options are absent, and the
\* invalid-arguments failure when any of them is present.
C5_WorkspaceBranch ==
    (Done /\ Present("workspace")) =>
        IF PresentOptions = {"workspace"}
        THEN Returned([kind |-> "WorkspaceFileTarget", paths |-> kwargs.workspace.q])
        ELSE InvalidCliArguments

C5_Witness ==
    /\ Done
    /\ kwargs.workspace.q = <<"b.yaml", "a.yaml">>
    /\ PresentOptions = {"workspace"}
    /\ result.value.paths = <<"b.yaml", "a.yaml">>

\* The working directory of a python-file target.
ExpectedWorkingDirectory ==
    IF Present("empty_working_directory") THEN None
    ELSE IF Present("working_directory") THEN kwargs.working_directory
    ELSE PyStr("/cwd")

ExpectedPythonFile ==
    Returned([kind |-> "PythonFileTarget", python_file |-> kwargs.python_file,
              attribute |-> kwargs.attribute,
              working_directory |-> ExpectedWorkingDirectory,
              location_name |-> None])

PythonFileGoverns == Done /\ Present("python_file") /\ ~Present("workspace")

\* C6 as stated: the python-file branch returns PythonFile(path, attribute,
\* workdir) exactly when module_name, package_name, grpc_port and grpc_socket
\* are absent.
C6_Original ==
    PythonFileGoverns =>
        (ExpectedPythonFile <=>
            PresentOptions \cap {"module_name", "package_name", "grpc_port",
                                 "grpc_socket"} = {})

\* C6 (amended): the python-file branch returns PythonFile(path, attribute,
\* workdir) exactly when module_name, package_name, grpc_host, grpc_port and
\* grpc_socket are absent, and fails otherwise; attribute, working_directory
\* and empty_working_directory never make it fail.
C6_PythonFileBranch ==
    PythonFileGoverns =>
        IF PresentOptions \cap {"module_name", "package_name", "grpc_host",
                                "grpc_port", "grpc_socket"} = {}
        THEN ExpectedPythonFile
        ELSE InvalidCliArguments

C6_Witness ==
    /\ PythonFileGoverns
    /\ PresentOptions = {"python_file", "attribute", "working_directory"}
    /\ ExpectedPythonFile

ModuleGoverns ==
    Done /\ Present("module_name") /\ ~Present("workspace") /\ ~Present("python_file")

PackageGoverns ==
    /\ Done
    /\ Present("package_name")
    /\ ~Present("workspace")
    /\ ~Present("python_file")
    /\ ~Present("module_name")

ExpectedModule ==
    Returned([kind |-> "ModuleTarget", module_name |-> kwargs.module_name,
              attribute |-> kwargs.attribute, location_name |-> None])

ExpectedPackage ==
    Returned([kind |-> "PackageTarget", package_name |-> kwargs.package_name,
              attribute |-> kwargs.attribute, location_name |-> None])

\* C7 as stated: the module branch returns Module(name, attribute) exactly
\* when package_name, working_directory, empty_working_directory, grpc_port and
\* grpc_socket are absent, the package branch Package(name, attribute) exactly
\* when working_directory, empty_working_directory, grpc_port and grpc_socket
\* are absent.
C7_Original ==
    /\ ModuleGoverns =>
           (ExpectedModule <=>
               PresentOptions \cap {"package_name", "working_directory",
                                    "empty_working_directory", "grpc_port",
                                    "grpc_socket"} = {})
    /\ PackageGoverns =>
           (ExpectedPackage <=>
               PresentOptions \cap {"working_directory", "empty_working_directory",
                                    "grpc_port", "grpc_socket"} = {})

\* C7 (amended): as stated, with grpc_host added to both exclusion sets; the
\* branch fails when an option of its set is present, and attribute never
\* makes it fail.
C7_ModulePackageBranch ==
    /\ ModuleGoverns =>
           IF PresentOptions \cap {"package_name", "working_directory",
                                   "empty_working_directory", "grpc_host",
                                   "grpc_port", "grpc_socket"} = {}
           THEN ExpectedModule
           ELSE InvalidCliArguments
    /\ PackageGoverns =>
           IF PresentOptions \cap {"working_directory", "empty_working_directory",
                                   "grpc_host", "grpc_port", "grpc_socket"} = {}
           THEN ExpectedPackage
           ELSE InvalidCliArguments

C7_Witness ==
    /\ PackageGoverns
    /\ PresentOptions = {"package_name", "attribute"}
    /\ ExpectedPackage

NoCodeOption ==
    PresentOptions \cap {"workspace", "python_file", "module_name", "package_name"} = {}

ExpectedHost ==
    IF kwargs.grpc_host \in {None, PyStr("")} THEN PyStr("localhost")
    ELSE kwargs.grpc_host

\* C8: when grpc_port (grpc_socket) is the highest-priority governing option
\* present and attribute, working_directory, empty_working_directory (and, for
\* a port, grpc_socket) are absent, the result is a server target with that
\* port and no socket (that socket and no port), whose host is the given
\* grpc_host, or "localhost" when grpc_host is absent or empty.
C8_GrpcBranch ==
    /\ (Done /\ NoCodeOption /\ Present("grpc_port")
             /\ PresentOptions \subseteq {"grpc_port", "grpc_host"})
           => Returned([kind |-> "GrpcServerTarget", port |-> kwargs.grpc_port,
                        socket |-> None, host |-> ExpectedHost,
                        location_name |-> None])
    /\ (Done /\ NoCodeOption /\ ~Present("grpc_port") /\ Present("grpc_socket")
             /\ PresentOptions \subseteq {"grpc_socket", "grpc_host"})
           => Returned([kind |-> "GrpcServerTarget", port |-> None,
                        socket |-> kwargs.grpc_socket, host |-> ExpectedHost,
                        location_name |-> None])
    /\ (Succeeded /\ result.value.kind = "GrpcServerTarget")
           => result.value.host \notin {None, PyStr("")}

C8_Witness ==
    /\ Succeeded
    /\ kwargs.grpc_host = PyStr("")
    /\ kwargs.grpc_port = PyInt(4000)
    /\ result.value.kind = "GrpcServerTarget"
    /\ result.value.host = PyStr("localhost")

\* C9: with some target option present but no governing option, the
\* resolution fails with the invalid-arguments UsageError, whatever the
\* empty-workspace flag and the default workspace file.
C9_NoGoverningOptionFails ==
    (Done /\ PresentOptions # {} /\ PresentOptions \cap Governing = {})
        => InvalidCliArguments

C9_Witness ==
    /\ Done
    /\ PresentOptions = {"attribute"}
    /\ Truthy(kwargs.empty_workspace)
    /\ workspace_yaml_exists
    /\ InvalidCliArguments

\* The command-line spelling of an option key.
OptionFlag(key) ==
    CASE key = "workspace" -> "--workspace"
      [] key = "python_file" -> "--python-file"
      [] key = "working_directory" -> "--working-directory"
      [] key = "empty_working_directory" -> "--empty-working-directory"
      [] key = "package_name" -> "--package-name"
      [] key = "module_name" -> "--module-name"
      [] key = "attribute" -> "--attribute"
      [] key = "grpc_host" -> "--grpc-host"
      [] key = "grpc_port" -> "--grpc-port"
      [] key = "grpc_socket" -> "--grpc-socket"

\* The target options a message names, by key or by flag.
OptionsNamedIn(message) ==
    {key \in TargetOptions :
        \E i \in DOMAIN message : message[i] \in {key, OptionFlag(key)}}

\* The options present next to the governing one that its rule does not admit.
OffendingOptions == PresentOptions \ FieldsOf(HighestGoverning)

ExclusionViolated ==
    /\ Done
    /\ PresentOptions \cap Governing # {}
    /\ OffendingOptions # {}

\* C10 as stated: a failure caused by a violated exclusion carries a message
\* that names an offending option.
C10_Original ==
    ExclusionViolated =>
        /\ Failed
        /\ OptionsNamedIn(result.message) \cap OffendingOptions # {}

\* C10 (amended): a failure caused by a violated exclusion is a UsageError
\* with the fixed text "Invalid set of CLI arguments for loading
\* repository/pipeline. See --help for details.", which names no option; all
\* violations yield the same message.
C10_ExclusionFailureMessage ==
    ExclusionViolated =>
        /\ InvalidCliArguments
        /\ OptionsNamedIn(result.message) = {}

C10_Witness ==
    /\ ExclusionViolated
    /\ OffendingOptions = {"working_directory"}
    /\ Present("module_name")
    /\ InvalidCliArguments

(***************************************************************************)
(* cli_target.py: selecting a location, a repository and a pipeline        *)
(*                                                                         *)
(* Names are strings.  Python orders strings by the code points of their   *)
(* characters; Spelling gives the characters of the names the model uses   *)
(* and Ord their code points.  A text is the sequence of its words, so the *)
(* list "['a', 'b']" is the two words "['a'," and "'b']".                  *)
(***************************************************************************)
AllNames == <<"a", "B", "ab", "b", "A">>

Spelling(name) ==
    CASE name = "a" -> <<"a">>
      [] name = "B" -> <<"B">>
      [] name = "ab" -> <<"a", "b">>
      [] name = "b" -> <<"b">>
      [] name = "A" -> <<"A">>
      [] name = "zz" -> <<"z", "z">>

Ord(c) ==
    CASE c = "A" -> 65
      [] c = "B" -> 66
      [] c = "a" -> 97
      [] c = "b" -> 98
      [] c = "z" -> 122

\* str.__lt__: the first differing character decides, a proper prefix is smaller.
RECURSIVE chars_less(_, _)
chars_less(x, y) ==
    IF y = <<>> THEN FALSE
    ELSE IF x = <<>> THEN TRUE
    ELSE IF Ord(Head(x)) # Ord(Head(y)) THEN Ord(Head(x)) < Ord(Head(y))
    ELSE chars_less(Tail(x), Tail(y))

str_less(a, b) == chars_less(Spelling(a), Spelling(b))

\* One step of sorted(): x put before the first element greater than it.
RECURSIVE insert_sorted(_, _)
insert_sorted(x, q) ==
    IF q = <<>> THEN <<x>>
    ELSE IF str_less(x, Head(q)) THEN <<x>> \o q
    ELSE <<Head(q)>> \o insert_sorted(x, Tail(q))

\* sorted() that leaves the elements in the order they came in.
sorted_unsorted(q) == q

RECURSIVE sorted(_)
sorted(q) == IF q = <<>> THEN <<>> ELSE insert_sorted(Head(q), sorted(Tail(q)))

\* ", ".join(["'{}'".format(s) for s in q]), as words.
RECURSIVE join_quoted(_)
join_quoted(q) ==
    IF Len(q) = 1 THEN <<"'" \o Head(q) \o "'">>
    ELSE <<"'" \o Head(q) \o "'" \o ",">> \o join_quoted(Tail(q))

\* The words w with prefix put before the first and suffix after the last.
Enclose(prefix, w, suffix) ==
    [i \in 1..Len(w) |->
        (IF i = 1 THEN prefix ELSE "") \o w[i] \o (IF i = Len(w) THEN suffix ELSE "")]

\* strings: the names in the iteration order of the collection.
_sorted_quoted(strings) ==
    IF strings = <<>> THEN <<"[]">>
    ELSE Enclose("[", join_quoted(sorted(strings)), "]")

\* A text followed directly by a full stop.
FullStop(w) == Enclose("", w, ".")

\* A name in double quotes, followed by suffix.
Quoted(name, suffix) == "\"" \o name \o "\"" \o suffix

Contains(q, x) == \E i \in DOMAIN q : q[i] = x

\* str(workspace.get_repository_location_error(name)).
location_error_str(name) == <<"ImportError:", "cannot", "import", name>>

RepositoryLocation(name) == [kind |-> "RepositoryLocation", name |-> name]
ExternalRepository(name) == [kind |-> "ExternalRepository", name |-> name]
ExternalPipeline(name) == [kind |-> "ExternalPipeline", name |-> name]

\* check.invariant(condition, desc)
check_invariant(condition, desc) ==
    IF condition THEN Return(None) ELSE Raise("CheckError", desc)

\* len(collection) == 1 taken for "there is something to take".
exactly_one_or_more(collection) == Len(collection) >= 1

\* len(collection) == 1, the test that selects the only candidate.
exactly_one(collection) == Len(collection) = 1

\* The selection of a location that does not look at its load error.
get_repository_location_from_workspace_ignoring_error(names, errors, provided) ==
    LET auto == provided = None /\ exactly_one(names)
        name == IF auto THEN names[1] ELSE IF provided = None THEN "" ELSE provided.s
    IN  IF provided = None /\ ~auto /\ Len(names) = 0 THEN
            Raise("UsageError", <<"No", "locations", "found", "in", "workspace">>)
        ELSE IF provided = None /\ ~auto THEN
            Raise("UsageError",
                  <<"Must", "provide", "--location", "as", "there", "are", "multiple",
                    "locations", "available.", "Options", "are:">>
                  \o _sorted_quoted(names))
        ELSE IF ~Contains(names, name) THEN
            Raise("UsageError",
                  <<"Location", Quoted(name, ""), "not", "found", "in", "workspace.",
                    "Found">> \o _sorted_quoted(names) \o <<"instead.">>)
        ELSE Return(RepositoryLocation(name))

\* names: workspace.repository_location_names; errors: the names for which
\* workspace.has_repository_location_error holds.
get_repository_location_from_workspace(names, errors, provided) ==
    LET auto == provided = None /\ exactly_one(names)
        name == IF auto THEN names[1] ELSE IF provided = None THEN "" ELSE provided.s
    IN  IF provided = None /\ ~auto /\ Len(names) = 0 THEN
            Raise("UsageError", <<"No", "locations", "found", "in", "workspace">>)
        ELSE IF provided = None /\ ~auto THEN
            Raise("UsageError",
                  <<"Must", "provide", "--location", "as", "there", "are", "multiple",
                    "locations", "available.", "Options", "are:">>
                  \o _sorted_quoted(names))
        ELSE IF ~Contains(names, name) THEN
            Raise("UsageError",
                  <<"Location", Quoted(name, ""), "not", "found", "in", "workspace.",
                    "Found">> \o _sorted_quoted(names) \o <<"instead.">>)
        ELSE IF name \in errors THEN
            Raise("UsageError",
                  <<"Error", "loading", "location", Quoted(name, ":")>>
                  \o location_error_str(name))
        ELSE Return(RepositoryLocation(name))

\* location: repo_location.name; names: the keys of repo_location.get_repositories().
get_external_repository_from_repo_location(location, names, provided) ==
    LET inv == check_invariant(names # <<>>,
                               <<"There", "should", "be", "at", "least", "one", "repo.">>)
    IN  IF inv.raised THEN inv
        ELSE IF provided = None /\ exactly_one(names) THEN
            Return(ExternalRepository(names[1]))
        ELSE IF provided = None THEN
            Raise("UsageError",
                  <<"Must", "provide", "--repository", "as", "there", "is", "more",
                    "than", "one", "repository", "in", location \o ".", "Options",
                    "are:">> \o FullStop(_sorted_quoted(names)))
        ELSE IF ~Contains(names, provided.s) THEN
            Raise("UsageError",
                  <<"Repository", Quoted(provided.s, ""), "not", "found", "in",
                    "location", Quoted(location, "."), "Found">>
                  \o _sorted_quoted(names) \o <<"instead.">>)
        ELSE Return(ExternalRepository(provided.s))

\* repository: external_repo.name; names: the names of
\* external_repo.get_all_external_pipelines().
get_external_pipeline_from_external_repo(repository, names, provided) ==
    LET inv == check_invariant(names # <<>>, <<>>)
    IN  IF inv.raised THEN inv
        ELSE IF provided = None /\ exactly_one(names) THEN
            Return(ExternalPipeline(names[1]))
        ELSE IF provided = None THEN
            Raise("UsageError",
                  <<"Must", "provide", "--pipeline", "as", "there", "is", "more",
                    "than", "one", "pipeline", "in", repository \o ".", "Options",
                    "are:">> \o FullStop(_sorted_quoted(names)))
        ELSE IF ~Contains(names, provided.s) THEN
            Raise("UsageError",
                  <<"Pipeline", Quoted(provided.s, ""), "not", "found", "in",
                    "repository", Quoted(repository, "."), "Found">>
                  \o _sorted_quoted(names) \o <<"instead.">>)
        ELSE Return(ExternalPipeline(provided.s))

(***************************************************************************)
(* cli_target.py: code pointers and origins                                *)
(*                                                                         *)
(* targets is what the file, module or package of the command defines: a   *)
(* sequence of [attribute, name], the attribute a loadable definition is   *)
(* bound to and the name of the repository it yields.  A call that may run *)
(* get_loadable_targets returns [out |-> outcome, enumerated |-> whether   *)
(* it ran].                                                                *)
(***************************************************************************)
AllAttributes == <<"x", "y", "z">>

sys_executable == PyStr("/usr/bin/python")

FileCodePointer(python_file, attribute, working_directory) ==
    [kind |-> "FileCodePointer", python_file |-> python_file,
     attribute |-> attribute, working_directory |-> working_directory]
ModuleCodePointer(module, attribute) ==
    [kind |-> "ModuleCodePointer", module |-> module, attribute |-> attribute]
PackageCodePointer(module, attribute) ==
    [kind |-> "PackageCodePointer", module |-> module, attribute |-> attribute]

RepositoryPythonOrigin(executable_path, code_pointer) ==
    [kind |-> "RepositoryPythonOrigin", executable_path |-> executable_path,
     code_pointer |-> code_pointer]
PipelinePythonOrigin(pipeline_name, repository_origin) ==
    [kind |-> "PipelinePythonOrigin", pipeline_name |-> pipeline_name,
     repository_origin |-> repository_origin]

\* check.failed(desc)
check_failed(desc) == Raise("CheckError", desc)

\* get_loadable_targets(python_file, module_name, package_name,
\* working_directory, attribute): every loadable definition, or the one bound
\* to attribute; it fails when the code cannot be loaded or nothing is found.
get_loadable_targets(tgts, can_load, attribute) ==
    LET Bound(t) == t.attribute = attribute.s
        found == IF Truthy(attribute) THEN SelectSeq(tgts, Bound) ELSE tgts
    IN  IF ~can_load THEN Raise("ImportError", <<"cannot", "load", "the", "code">>)
        ELSE IF found = <<>> THEN
            Raise("NoLoadableTargets", <<"No", "loadable", "targets", "found">>)
        ELSE Return(found)

EmptyDict == [keys |-> <<>>, val |-> <<>>]

\* d[key] = value: a new key goes last, a key already there keeps its place.
DictSet(d, key, value) ==
    IF Contains(d.keys, key)
    THEN [keys |-> d.keys,
          val |-> [i \in DOMAIN d.keys |-> IF d.keys[i] = key THEN value ELSE d.val[i]]]
    ELSE [keys |-> Append(d.keys, key), val |-> Append(d.val, value)]

\* d[key] that answers with the first value of the dict.
DictGetFirst(d, key) == d.val[1]

\* d[key]
DictGet(d, key) == d.val[CHOOSE i \in DOMAIN d.keys : d.keys[i] = key]

\* A dict comprehension in which a key that comes again keeps its first value.
RECURSIVE dict_of_keeping_first(_, _)
dict_of_keeping_first(d, items) ==
    IF items = <<>> THEN d
    ELSE LET kv == Head(items)
         IN  dict_of_keeping_first(
                 IF Contains(d.keys, kv.key) THEN d ELSE DictSet(d, kv.key, kv.value),
                 Tail(items))

\* {key: value for ... in ...} over items, the [key, value] pairs in the order
\* the comprehension yields them, added to d.
RECURSIVE dict_of(_, _)
dict_of(d, items) ==
    IF items = <<>> THEN d
    ELSE LET kv == Head(items)
         IN  dict_of(DictSet(d, kv.key, kv.value), Tail(items))

\* CodePointer.from_python_file, from_module or from_python_package, for the
\* kind of target of the branch.
code_pointer_from(kind, target, attribute, working_directory) ==
    IF kind = "python_file" THEN FileCodePointer(target, attribute, working_directory)
    ELSE IF kind = "module_name" THEN ModuleCodePointer(target, attribute)
    ELSE PackageCodePointer(target, attribute)

\* {repository_def_from_target_def(t.target_definition).name:
\*      CodePointer.from_...(target, t.attribute, ...) for t in loadable_targets}
code_pointer_dict(loadable_targets, kind, target, working_directory) ==
    dict_of(EmptyDict,
            [i \in 1..Len(loadable_targets) |->
                [key |-> loadable_targets[i].name,
                 value |-> code_pointer_from(kind, target,
                                             PyStr(loadable_targets[i].attribute),
                                             working_directory)]])

\* The keys _get_code_pointer_dict_from_kwargs requires to be unset.
CODE_POINTER_FILE_EXCLUDED == <<"module_name", "package_name">>
CODE_POINTER_MODULE_EXCLUDED == <<"python_file", "working_directory", "package_name">>
CODE_POINTER_PACKAGE_EXCLUDED == <<"module_name", "python_file", "working_directory">>

MUST_SPECIFY_DESCRIPTION == <<"Must", "specify", "a", "Python", "file", "or", "module", "name">>

\* The branch of _get_code_pointer_dict_from_kwargs for one kind of target.
code_pointer_dict_branch(kw, tgts, can_load, excluded, kind) ==
    LET c == _check_cli_arguments_none(kw, excluded)
        loaded == get_loadable_targets(tgts, can_load, Get(kw, "attribute"))
    IN  IF c.raised THEN [out |-> c, enumerated |-> FALSE]
        ELSE IF loaded.raised THEN [out |-> loaded, enumerated |-> TRUE]
        ELSE [out |-> Return(code_pointer_dict(loaded.value, kind, Get(kw, kind),
                                               get_working_directory_from_kwargs(kw))),
              enumerated |-> TRUE]

_get_code_pointer_dict_from_kwargs(kw, tgts, can_load) ==
    IF Truthy(Get(kw, "python_file")) THEN
        code_pointer_dict_branch(kw, tgts, can_load, CODE_POINTER_FILE_EXCLUDED,
                                 "python_file")
    ELSE IF Truthy(Get(kw, "module_name")) THEN
        code_pointer_dict_branch(kw, tgts, can_load, CODE_POINTER_MODULE_EXCLUDED,
                                 "module_name")
    ELSE IF Truthy(Get(kw, "package_name")) THEN
        code_pointer_dict_branch(kw, tgts, can_load, CODE_POINTER_PACKAGE_EXCLUDED,
                                 "package_name")
    ELSE [out |-> check_failed(MUST_SPECIFY_DESCRIPTION), enumerated |-> FALSE]

\* The keys the short-circuit of get_repository_python_origin_from_kwargs
\* requires to be unset.
ORIGIN_FILE_EXCLUDED == <<"module_name", "package_name">>
ORIGIN_MODULE_EXCLUDED == <<"python_file", "working_directory", "package_name">>
ORIGIN_PACKAGE_EXCLUDED == <<"python_file", "working_directory", "module_name">>

\* The origin built without loading anything that takes every target for a
\* module.
origin_without_loading_as_module(kw) ==
    LET target == IF Truthy(Get(kw, "python_file")) THEN Get(kw, "python_file")
                  ELSE IF Truthy(Get(kw, "module_name")) THEN Get(kw, "module_name")
                  ELSE Get(kw, "package_name")
    IN  Return(RepositoryPythonOrigin(sys_executable,
                                      ModuleCodePointer(target, Get(kw, "attribute"))))

\* The origin built without loading anything (attribute given, no repository).
origin_without_loading(kw) ==
    LET attribute == Get(kw, "attribute")
        Checked(excluded, code_pointer) ==
            LET c == _check_cli_arguments_none(kw, excluded)
            IN  IF c.raised THEN c
                ELSE Return(RepositoryPythonOrigin(sys_executable, code_pointer))
    IN  IF Truthy(Get(kw, "python_file")) THEN
            Checked(ORIGIN_FILE_EXCLUDED,
                    FileCodePointer(Get(kw, "python_file"), attribute,
                                    get_working_directory_from_kwargs(kw)))
        ELSE IF Truthy(Get(kw, "module_name")) THEN
            Checked(ORIGIN_MODULE_EXCLUDED,
                    ModuleCodePointer(Get(kw, "module_name"), attribute))
        ELSE IF Truthy(Get(kw, "package_name")) THEN
            Checked(ORIGIN_PACKAGE_EXCLUDED,
                    PackageCodePointer(Get(kw, "package_name"), attribute))
        ELSE check_failed(MUST_SPECIFY_DESCRIPTION)

\* The selection of one code pointer among those of the dict.
select_code_pointer(code_pointer_dict_, provided_repo_name) ==
    IF provided_repo_name = None /\ exactly_one(code_pointer_dict_.keys) THEN
        Return(RepositoryPythonOrigin(sys_executable, code_pointer_dict_.val[1]))
    ELSE IF provided_repo_name = None THEN
        Raise("UsageError",
              <<"Must", "provide", "--repository", "as", "there", "is", "more",
                "than", "one", "repository.", "Options", "are:">>
              \o FullStop(_sorted_quoted(code_pointer_dict_.keys)))
    ELSE IF ~Contains(code_pointer_dict_.keys, provided_repo_name.s) THEN
        Raise("UsageError",
              <<"Repository", Quoted(provided_repo_name.s, ""), "not", "found.",
                "Found">> \o _sorted_quoted(code_pointer_dict_.keys) \o <<"instead.">>)
    ELSE Return(RepositoryPythonOrigin(sys_executable,
                                       DictGet(code_pointer_dict_, provided_repo_name.s)))

\* The short-circuit taken whenever an attribute is given.
takes_short_circuit_on_attribute(kw) == Truthy(Get(kw, "attribute"))

\* The test that takes the short-circuit: an attribute and no repository name.
takes_short_circuit(kw) == Truthy(Get(kw, "attribute")) /\ ~Truthy(Get(kw, "repository"))

get_repository_python_origin_from_kwargs(kw, tgts, can_load) ==
    LET provided_repo_name == Get(kw, "repository")
    IN  IF ~(Truthy(Get(kw, "python_file")) \/ Truthy(Get(kw, "module_name"))
             \/ Truthy(Get(kw, "package_name"))) THEN
            [out |-> Raise("UsageError",
                           <<"Must", "specify", "a", "python", "file", "or", "module",
                             "name">>),
             enumerated |-> FALSE]
        ELSE IF takes_short_circuit(kw) THEN
            [out |-> origin_without_loading(kw), enumerated |-> FALSE]
        ELSE LET d == _get_code_pointer_dict_from_kwargs(kw, tgts, can_load)
             IN  IF d.out.raised THEN d
                 ELSE [out |-> select_code_pointer(d.out.value, provided_repo_name),
                       enumerated |-> d.enumerated]

\* recon_repository_from_origin(origin): the reconstructable repository of
\* the code pointer the origin carries.
recon_repository_from_origin(origin) ==
    [kind |-> "ReconstructableRepository", pointer |-> origin.code_pointer]

\* recon_repository_from_origin(origin).get_definition(): the repository the
\* code pointer of the origin points at, with the names of its pipelines; it
\* fails when the code cannot be loaded or holds nothing under the attribute.
recon_repository_get_definition(origin, tgts, can_load, pipelines) ==
    LET recon_repo == recon_repository_from_origin(origin)
        Bound(t) == t.attribute = recon_repo.pointer.attribute.s
        found == SelectSeq(tgts, Bound)
    IN  IF ~can_load THEN Raise("ImportError", <<"cannot", "load", "the", "code">>)
        ELSE IF found = <<>> THEN
            Raise("NoLoadableTargets", <<"No", "loadable", "targets", "found">>)
        ELSE Return([name |-> found[1].name, pipeline_names |-> pipelines])

\* The pipeline name taken from the options without looking for it among the
\* pipelines of the repository.
select_pipeline_name_unchecked(repo_definition, provided_pipeline_name) ==
    IF provided_pipeline_name = None /\ exactly_one(repo_definition.pipeline_names) THEN
        Return(PyStr(repo_definition.pipeline_names[1]))
    ELSE IF provided_pipeline_name = None THEN
        Raise("UsageError", <<"Must", "provide", "--pipeline">>)
    ELSE Return(provided_pipeline_name)

\* The selection of the pipeline name among those of the repository.
select_pipeline_name(repo_definition, provided_pipeline_name) ==
    LET pipeline_names == repo_definition.pipeline_names
    IN  IF provided_pipeline_name = None /\ exactly_one(pipeline_names) THEN
            Return(PyStr(pipeline_names[1]))
        ELSE IF provided_pipeline_name = None THEN
            Raise("UsageError",
                  <<"Must", "provide", "--pipeline", "as", "there", "is", "more",
                    "than", "one", "pipeline", "in", repo_definition.name \o ".",
                    "Options", "are:">> \o FullStop(_sorted_quoted(pipeline_names)))
        ELSE IF ~Contains(pipeline_names, provided_pipeline_name.s) THEN
            Raise("UsageError",
                  <<"Pipeline", Quoted(provided_pipeline_name.s, ""), "not", "found",
                    "in", "repository", Quoted(repo_definition.name, "."), "Found">>
                  \o _sorted_quoted(pipeline_names) \o <<"instead.">>)
        ELSE Return(provided_pipeline_name)

get_pipeline_python_origin_from_kwargs(kw, tgts, can_load, pipelines) ==
    LET r == get_repository_python_origin_from_kwargs(kw, tgts, can_load)
        repository_origin == r.out.value
        d == recon_repository_get_definition(repository_origin, tgts, can_load, pipelines)
        n == select_pipeline_name(d.value, Get(kw, "pipeline"))
    IN  IF r.out.raised THEN r
        ELSE IF d.raised THEN [out |-> d, enumerated |-> r.enumerated]
        ELSE IF n.raised THEN [out |-> n, enumerated |-> r.enumerated]
        ELSE [out |-> Return(PipelinePythonOrigin(n.value.s, repository_origin)),
              enumerated |-> r.enumerated]

(***************************************************************************)
(* The commands that build an origin or select from a workspace.  A state  *)
(* holds the function a command calls and the inputs of that call.         *)
(***************************************************************************)
\* The option maps of python_pipeline_target_click_options().
PythonOptionMaps ==
    [empty_working_directory : Flags,
     working_directory : {None, PyStr("/wd")},
     python_file : {None, PyStr("repo.py")},
     package_name : {None, PyStr("pkg")},
     module_name : {None, PyStr("pkg.defs")},
     attribute : {None, PyStr("x"), PyStr("y")},
     repository : {None, PyStr("a"), PyStr("zz")},
     pipeline : {None, PyStr("a"), PyStr("zz")}]

\* The sequences over S without repetition, of at most n elements.
RECURSIVE DistinctSeqsUpTo(_, _)
DistinctSeqsUpTo(S, n) ==
    IF n = 0 THEN {<<>>}
    ELSE LET shorter == DistinctSeqsUpTo(S, n - 1)
             longer == {Append(q, x) : q \in shorter, x \in S}
         IN  shorter \cup {p \in longer : \A i, j \in DOMAIN p : i # j => p[i] # p[j]}

Range(q) == {q[i] : i \in DOMAIN q}

CandidateNames == Range(SubSeq(AllNames, 1, MaxCandidates))

\* The collections selected from: distinct names in any iteration order.
CandidateLists == DistinctSeqsUpTo(CandidateNames, MaxCandidates)

RequestedNames == {None, PyStr("zz")} \cup {PyStr(n) : n \in CandidateNames}

RepositoryNames == {"a", "B"}

\* What a file, module or package may define: each attribute is bound once,
\* two attributes may yield repositories of the same name.
TargetLists ==
    {q \in UNION {[1..n -> [attribute : Range(SubSeq(AllAttributes, 1, MaxTargets)),
                            name : RepositoryNames]] : n \in 0..MaxTargets} :
        \A i, j \in DOMAIN q : i # j => q[i].attribute # q[j].attribute}

\* The pipelines of the repository the origin points at.
PipelineLists == {SubSeq(AllNames, 1, n) : n \in 0..2}

OriginFunctions ==
    {"_get_code_pointer_dict_from_kwargs", "get_repository_python_origin_from_kwargs",
     "get_pipeline_python_origin_from_kwargs"}

SelectionFunctions ==
    {"get_repository_location_from_workspace",
     "get_external_repository_from_repo_location",
     "get_external_pipeline_from_external_repo"}

NoPythonOptions ==
    [empty_working_directory |-> PyBool(FALSE), working_directory |-> None,
     python_file |-> None, package_name |-> None, module_name |-> None,
     attribute |-> None, repository |-> None, pipeline |-> None]

InitOrigin ==
    /\ called \in OriginFunctions
    /\ kwargs \in PythonOptionMaps
    /\ called # "get_pipeline_python_origin_from_kwargs" => kwargs.pipeline = None
    /\ called = "_get_code_pointer_dict_from_kwargs" => kwargs.repository = None
    /\ targets \in TargetLists
    /\ loadable \in BOOLEAN
    /\ candidates \in PipelineLists
    /\ called # "get_pipeline_python_origin_from_kwargs" => candidates = <<>>
    /\ requested = None
    /\ failed = {}

InitSelection ==
    /\ called \in SelectionFunctions
    /\ kwargs = NoPythonOptions
    /\ NoPythonTarget
    /\ candidates \in CandidateLists
    /\ requested \in RequestedNames
    /\ failed \in SUBSET Range(candidates)
    /\ called # "get_repository_location_from_workspace" => failed = {}

InitSelect ==
    /\ workspace_yaml_exists = FALSE
    /\ pc = "start"
    /\ result = NotCalled
    /\ enumerated = FALSE
    /\ NoScope
    /\ NoLogging
    /\ InitOrigin \/ InitSelection

\* The call made by a command and what it leaves behind.
Call(function, outcome, ran_enumeration) ==
    /\ pc = "start"
    /\ called = function
    /\ result' = outcome
    /\ enumerated' = ran_enumeration
    /\ pc' = "done"
    /\ UNCHANGED <<inputs, called, scope, handling>>

CallGetCodePointerDictFromKwargs ==
    LET r == _get_code_pointer_dict_from_kwargs(kwargs, targets, loadable)
    IN  Call("_get_code_pointer_dict_from_kwargs", r.out, r.enumerated)

CallGetRepositoryPythonOriginFromKwargs ==
    LET r == get_repository_python_origin_from_kwargs(kwargs, targets, loadable)
    IN  Call("get_repository_python_origin_from_kwargs", r.out, r.enumerated)

CallGetPipelinePythonOriginFromKwargs ==
    LET r == get_pipeline_python_origin_from_kwargs(kwargs, targets, loadable, candidates)
    IN  Call("get_pipeline_python_origin_from_kwargs", r.out, r.enumerated)

CallGetRepositoryLocationFromWorkspace ==
    Call("get_repository_location_from_workspace",
         get_repository_location_from_workspace(candidates, failed, requested), FALSE)

CallGetExternalRepositoryFromRepoLocation ==
    Call("get_external_repository_from_repo_location",
         get_external_repository_from_repo_location("the_location", candidates, requested),
         FALSE)

CallGetExternalPipelineFromExternalRepo ==
    Call("get_external_pipeline_from_external_repo",
         get_external_pipeline_from_external_repo("the_repository", candidates, requested),
         FALSE)

NextSelect ==
    \/ CallGetCodePointerDictFromKwargs
    \/ CallGetRepositoryPythonOriginFromKwargs
    \/ CallGetPipelinePythonOriginFromKwargs
    \/ CallGetRepositoryLocationFromWorkspace
    \/ CallGetExternalRepositoryFromRepoLocation
    \/ CallGetExternalPipelineFromExternalRepo

SpecSelect == InitSelect /\ [][NextSelect]_vars

(***************************************************************************)
(* cli_target.py: the commands that hold a workspace open                  *)
(*                                                                         *)
(* get_repository_location_from_kwargs, get_external_repository_from_kwargs *)
(* and get_external_pipeline_from_kwargs are generator context managers,   *)
(* each entered inside the with block of the next.  stack holds the        *)
(* context managers whose __enter__ has returned, the last entered last;   *)
(* an exit leaves them last first.  trace records what happened: the       *)
(* workspace process context opened, each selection, the body of the       *)
(* caller's with statement, the release of the process context; raised     *)
(* tells whether that step raised.                                         *)
(***************************************************************************)
Event(name, raised) == [event |-> name, raised |-> raised]

NavigationFunctions ==
    {"get_repository_location_from_kwargs", "get_external_repository_from_kwargs",
     "get_external_pipeline_from_kwargs"}

\* WorkspaceProcessContext.__exit__ releases the workspace; the exit of a
\* generator context manager only resumes its generator.
exit_events_unless_raised(context, exception) ==
    IF context = "WorkspaceProcessContext" /\ ~exception.raised
    THEN <<Event("release", FALSE)>>
    ELSE <<>>

exit_events(context, exception) ==
    IF context = "WorkspaceProcessContext" THEN <<Event("release", FALSE)>> ELSE <<>>

\* A selection that yields its result to the caller whatever came of it.
after_select_yielding_anyway(function, step, raised) ==
    IF step = "pipeline" THEN "body"
    ELSE IF raised THEN "unwind"
    ELSE IF step = "location" THEN
        IF function = "get_repository_location_from_kwargs" THEN "body"
        ELSE "select_repository"
    ELSE IF function = "get_external_repository_from_kwargs" THEN "body"
    ELSE "select_pipeline"

\* Where the command goes after the selection of step: out through the with
\* blocks when it raised, into the body of the caller when the function
\* yields what was selected, into the next selection otherwise.
after_select(function, step, raised) ==
    IF raised THEN "unwind"
    ELSE IF step = "location" THEN
        IF function = "get_repository_location_from_kwargs" THEN "body"
        ELSE "select_repository"
    ELSE IF step = "repository" THEN
        IF function = "get_external_repository_from_kwargs" THEN "body"
        ELSE "select_pipeline"
    ELSE "body"

\* WorkspaceProcessContext(instance, target, ...).__enter__(): the workspace
\* is open, or the constructor raised.
WorkspaceProcessContext_enter(target, opens) ==
    IF opens THEN Return([kind |-> "WorkspaceProcessContext", target |-> target])
    ELSE Raise("DagsterError", <<"cannot", "open", "the", "workspace">>)

\* with get_workspace_process_context_from_kwargs(...) as
\* workspace_process_context: yield workspace_process_context.create_request_context()
GetWorkspaceFromKwargs ==
    /\ pc = "start"
    /\ called \in NavigationFunctions
    /\ LET target == created_workspace_load_target(kwargs, workspace_yaml_exists)
       IN  IF target.raised THEN
               /\ pc' = "done"
               /\ result' = target
               /\ UNCHANGED <<stack, trace>>
           ELSE \E opens \in BOOLEAN :
               LET context == WorkspaceProcessContext_enter(target.value, opens)
               IN  /\ trace' = Append(trace, Event("open", context.raised))
                   /\ IF context.raised THEN
                          /\ pc' = "done"
                          /\ result' = context
                          /\ UNCHANGED stack
                      ELSE
                          /\ pc' = "select_location"
                          /\ stack' = <<"WorkspaceProcessContext", "get_workspace_from_kwargs">>
                          /\ UNCHANGED result
    /\ UNCHANGED <<inputs, called, enumerated, handling, repo_dict, external_pipelines, pending>>

\* A selection ran: its outcome is traced; what it selected is the object the
\* generator holds and its context manager counts as entered, what it raised
\* is in flight.
Selected(step, context_manager, outcome) ==
    /\ trace' = Append(trace, Event(step, outcome.raised))
    /\ pc' = after_select(called, step, outcome.raised)
    /\ IF outcome.raised THEN
           /\ pending' = outcome
           /\ UNCHANGED <<result, stack>>
       ELSE
           /\ result' = outcome
           /\ stack' = Append(stack, context_manager)
           /\ UNCHANGED pending
    /\ UNCHANGED <<inputs, called, enumerated, handling, repo_dict, external_pipelines>>

\* yield get_repository_location_from_workspace(workspace, kwargs.get("location"))
SelectLocation ==
    /\ pc = "select_location"
    /\ Selected("location", "get_repository_location_from_kwargs",
                get_repository_location_from_workspace(candidates, failed,
                                                       Get(kwargs, "location")))

\* yield get_external_repository_from_repo_location(repo_location, provided_repo_name)
SelectRepository ==
    /\ pc = "select_repository"
    /\ Selected("repository", "get_external_repository_from_kwargs",
                get_external_repository_from_repo_location(result.value.name, repo_dict,
                                                           Get(kwargs, "repository")))

\* yield get_external_pipeline_from_external_repo(external_repo, provided_pipeline_name)
SelectPipeline ==
    /\ pc = "select_pipeline"
    /\ Selected("pipeline", "get_external_pipeline_from_kwargs",
                get_external_pipeline_from_external_repo(result.value.name,
                                                         external_pipelines,
                                                         Get(kwargs, "pipeline")))

\* The body of the caller's with statement runs on what was yielded, and
\* either completes or raises.
Body ==
    /\ pc = "body"
    /\ \E raises \in BOOLEAN :
           /\ trace' = Append(trace, Event("body", raises))
           /\ pending' = IF raises
                         THEN Raise("Exception", <<"raised", "in", "the", "body">>)
                         ELSE pending
    /\ pc' = "unwind"
    /\ UNCHANGED <<inputs, called, enumerated, handling, repo_dict, external_pipelines, result, stack>>

\* The with block entered last is left: __exit__ of its context manager runs,
\* with the exception in flight, which it does not swallow.
ExitContext ==
    /\ pc = "unwind"
    /\ stack # <<>>
    /\ trace' = trace \o exit_events(stack[Len(stack)], pending)
    /\ stack' = SubSeq(stack, 1, Len(stack) - 1)
    /\ IF Len(stack) = 1 THEN
           /\ pc' = "done"
           /\ result' = IF pending.raised THEN pending ELSE result
       ELSE UNCHANGED <<pc, result>>
    /\ UNCHANGED <<inputs, called, enumerated, handling, repo_dict, external_pipelines, pending>>

\* The option maps of the commands that navigate a workspace: those of
\* workspace_target_click_options() with the names to select.
NavigationOptionMaps ==
    [empty_workspace : {PyBool(FALSE)},
     workspace : {PyTuple(<<>>)},
     empty_working_directory : {PyBool(FALSE)},
     working_directory : {None},
     python_file : {None, PyStr("repo.py")},
     package_name : {None},
     module_name : {None},
     attribute : {None},
     grpc_port : {None},
     grpc_socket : {None},
     grpc_host : {None},
     location : {None, PyStr("a"), PyStr("zz")},
     repository : {None, PyStr("a"), PyStr("zz")},
     pipeline : {None, PyStr("a"), PyStr("zz")}]

\* The locations of the workspace.
LocationLists == {SubSeq(AllNames, 1, n) : n \in 0..MaxLocations}

InitNavigate ==
    /\ called \in NavigationFunctions
    /\ kwargs \in NavigationOptionMaps
    /\ workspace_yaml_exists \in BOOLEAN
    /\ candidates \in LocationLists
    /\ failed \in SUBSET Range(candidates)
    /\ repo_dict \in PipelineLists
    /\ external_pipelines \in PipelineLists
    /\ called = "get_repository_location_from_kwargs" =>
           (kwargs.repository = None /\ repo_dict = <<>>)
    /\ called # "get_external_pipeline_from_kwargs" =>
           (kwargs.pipeline = None /\ external_pipelines = <<>>)
    /\ requested = None
    /\ NoPythonTarget
    /\ NoLogging
    /\ enumerated = FALSE
    /\ pc = "start"
    /\ result = NotCalled
    /\ stack = <<>>
    /\ pending = NoException
    /\ trace = <<>>

NextNavigate ==
    \/ GetWorkspaceFromKwargs
    \/ SelectLocation
    \/ SelectRepository
    \/ SelectPipeline
    \/ Body
    \/ ExitContext

SpecNavigate == InitNavigate /\ [][NextNavigate]_vars

(***************************************************************************)
(* log_manager.py: DagsterLogHandler                                       *)
(*                                                                         *)
(* A record logged to a logger is handed to the handlers of that logger    *)
(* and, while the loggers propagate, to those of its ancestors; it is one  *)
(* object, which a handler changes in place.  hierarchy holds, for each    *)
(* logger on that way, whether begin_python_log_capture added the          *)
(* DagsterLogHandler to it (or it is the DagsterLogManager itself) and     *)
(* whether it propagates.  The handler forwards to one built-in handler    *)
(* and one user-defined logger.                                            *)
(***************************************************************************)
DagsterEvent == [k |-> "DagsterEvent"]

\* get_dagster_meta_dict(logging_metadata, dagster_message_props)
get_dagster_meta_dict(orig_message, dagster_event) ==
    [k |-> "dict", orig_message |-> orig_message, dagster_event |-> dagster_event]

\* construct_log_string(logging_metadata, dagster_message_props)
construct_log_string(orig_message) == "dagster - " \o orig_message

LogRecord(msg, dagster_meta) == [kind |-> "LogRecord", msg |-> msg, dagster_meta |-> dagster_meta]

\* DagsterLogHandler._convert_record
_convert_record(rec) ==
    LogRecord(construct_log_string(rec.msg), get_dagster_meta_dict(rec.msg, rec.dagster_meta))

\* A filter that lets every record through.
filter_accepting_all(rec) == TRUE

\* DagsterLogHandler.filter:
\* not isinstance(getattr(record, DAGSTER_META_KEY, None), dict)
filter(rec) == ~(rec.dagster_meta.k = "dict")

\* DagsterLogHandler.emit: the record converted and what is forwarded, to the
\* built-in handlers first, to the user-defined loggers next.
emit(rec) ==
    [record |-> _convert_record(rec),
     forwarded |-> <<Event("handler.handle", FALSE), Event("logger.log", FALSE)>>]

\* logging.Handler.handle of the DagsterLogHandler: emit when filter accepts.
handle(rec) ==
    IF filter(rec)
    THEN [record |-> emit(rec).record,
          forwarded |-> <<Event("filter", FALSE)>> \o emit(rec).forwarded]
    ELSE [record |-> rec, forwarded |-> <<Event("filter", TRUE)>>]

\* The records a caller logs: a plain message, a DagsterEvent logged by
\* log_dagster_event, and a message logged again with the meta dict of an
\* earlier conversion in its extra.
LoggedRecords ==
    {LogRecord("m", None), LogRecord("m", DagsterEvent),
     LogRecord(construct_log_string("m"), get_dagster_meta_dict("m", None))}

Hierarchies ==
    UNION {[1..n -> [managed : BOOLEAN, propagate : BOOLEAN]] : n \in 1..MaxLoggers}

InitLog ==
    /\ called = "log"
    /\ hierarchy \in Hierarchies
    /\ logged \in LoggedRecords
    /\ record = NoRecord
    /\ logger = 0
    /\ pc = "start"
    /\ trace = <<>>
    /\ kwargs = NoPythonOptions
    /\ workspace_yaml_exists = FALSE
    /\ result = NotCalled
    /\ enumerated = FALSE
    /\ NoSelectionInputs
    /\ NoPythonTarget
    /\ repo_dict = <<>>
    /\ external_pipelines = <<>>
    /\ stack = <<>>
    /\ pending = NoException
    /\ BUILDKITE = FALSE
    /\ isfile = FALSE

\* logging.Logger.log: the record is made and handed to the first logger.
Log ==
    /\ pc = "start"
    /\ called = "log"
    /\ record' = logged
    /\ logger' = 1
    /\ pc' = "callHandlers"
    /\ UNCHANGED <<inputs, called, enumerated, scope, result>>

\* logging.Logger.callHandlers at one logger of the hierarchy: its handlers
\* handle the record, which then goes to the parent if the logger propagates.
CallHandlers ==
    /\ pc = "callHandlers"
    /\ LET c == hierarchy[logger]
           handled == IF c.managed THEN handle(record)
                      ELSE [record |-> record, forwarded |-> <<>>]
       IN  /\ record' = handled.record
           /\ trace' = trace \o handled.forwarded
           /\ IF c.propagate /\ logger < Len(hierarchy)
              THEN logger' = logger + 1 /\ pc' = pc
              ELSE logger' = 0 /\ pc' = "done"
    /\ UNCHANGED <<inputs, called, enumerated, repo_dict, external_pipelines, stack,
                   pending, result>>

NextLog == Log \/ CallHandlers

SpecLog == InitLog /\ [][NextLog]_vars

(***************************************************************************)
(* docker_compose.py: the docker_compose context manager                   *)
(*                                                                         *)
(* A path is a Text of its components.  Every command run in a subprocess  *)
(* either succeeds or raises CalledProcessError; trace records each        *)
(* command attempted, with its argv, and the body of the caller's with     *)
(* statement.                                                              *)
(***************************************************************************)
Command(name, argv, raised) == [event |-> name, raised |-> raised, argv |-> argv]

CalledProcessError(argv) == Raise("CalledProcessError", argv)

test_directory == <<"tests">>

\* os.path.join / str of a path
RECURSIVE path_str(_)
path_str(parts) ==
    IF parts = <<>> THEN ""
    ELSE IF Len(parts) = 1 THEN parts[1]
    ELSE parts[1] \o "/" \o path_str(Tail(parts))

default_docker_compose_yml(default_directory, compose_isfile) ==
    IF compose_isfile THEN Text(<<"cwd", "docker-compose.yml">>)
    ELSE Text(default_directory \o <<"docker-compose.yml">>)

\* os.path.basename(os.path.dirname(docker_compose_yml)) + "_default"
network_name_from_yml(docker_compose_yml) ==
    LET dirname == SubSeq(docker_compose_yml.words, 1, Len(docker_compose_yml.words) - 1)
        basename == IF dirname = <<>> THEN "" ELSE dirname[Len(dirname)]
    IN  PyStr(basename \o "_default")

\* The docker_compose_yml and the network_name docker_compose works with.
resolved_docker_compose_yml(kw, compose_isfile) ==
    IF ~Truthy(kw.docker_compose_yml)
    THEN default_docker_compose_yml(test_directory, compose_isfile)
    ELSE kw.docker_compose_yml

resolved_network_name(kw, compose_isfile) ==
    IF ~Truthy(kw.network_name)
    THEN network_name_from_yml(resolved_docker_compose_yml(kw, compose_isfile))
    ELSE kw.network_name

compose_command(context) ==
    IF Truthy(context) THEN <<"docker", "--context", context.s, "compose">>
    ELSE <<"docker-compose">>

docker_compose_up(docker_compose_yml, context) ==
    compose_command(context) \o <<"--file", path_str(docker_compose_yml.words), "up", "--detach">>

docker_compose_down(docker_compose_yml, context) ==
    compose_command(context) \o <<"--file", path_str(docker_compose_yml.words), "down">>

the_container == "buildkite_container"

connect_container_to_network(container, network) ==
    <<"docker", "network", "connect", network.s, container>>

disconnect_container_from_network(container, network) ==
    <<"docker", "network", "disconnect", network.s, container>>

\* docker_compose_up outside the try statement: its failure leaves at once.
after_docker_compose_up_outside_try(raised, buildkite) ==
    IF raised THEN "done"
    ELSE IF buildkite THEN "current_container"
    ELSE "list_containers"

\* Where docker_compose goes after docker_compose_up: to the finally clause
\* when it raised, to the hostnames of Buildkite or of the local run otherwise.
after_docker_compose_up(raised, buildkite) ==
    IF raised THEN "docker_compose_down"
    ELSE IF buildkite THEN "current_container"
    ELSE "list_containers"

\* A step of either generator ran: it is traced, and what it raised is in
\* flight and takes the generator to the finally clause that encloses it.
Ran(step, goes_on, finally_clause) ==
    /\ trace' = Append(trace, step)
    /\ IF step.raised
       THEN pending' = CalledProcessError(step.argv) /\ pc' = finally_clause
       ELSE pending' = pending /\ pc' = goes_on
    /\ UNCHANGED <<inputs, called, enumerated, handling, repo_dict, external_pipelines,
                   result, stack>>

DockerComposeUp ==
    /\ pc = "start"
    /\ called = "docker_compose"
    /\ \E raised \in BOOLEAN :
           Ran(Command("docker_compose_up",
                       docker_compose_up(resolved_docker_compose_yml(kwargs, isfile),
                                         kwargs.docker_context),
                       raised),
               after_docker_compose_up(FALSE, BUILDKITE),
               after_docker_compose_up(TRUE, BUILDKITE))

\* yield dict((container, "localhost") for container in list_containers())
ListContainers ==
    /\ pc = "list_containers"
    /\ \E raised \in BOOLEAN :
           Ran(Command("list_containers", <<"docker", "ps", "--format", "{{.Names}}">>,
                       raised),
               "yield", "docker_compose_down")

\* container = current_container(), before the try statement of
\* buildkite_hostnames_cm
CurrentContainer ==
    /\ pc = "current_container"
    /\ \E raised \in BOOLEAN :
           Ran(Command("current_container", <<"cat", "/etc/hostname">>, raised),
               "connect_container_to_network", "docker_compose_down")

ConnectContainerToNetwork ==
    /\ pc = "connect_container_to_network"
    /\ \E raised \in BOOLEAN :
           Ran(Command("connect_container_to_network",
                       connect_container_to_network(the_container,
                                                    resolved_network_name(kwargs, isfile)),
                       raised),
               "hostnames", "disconnect_container_from_network")

\* yield hostnames(network)
Hostnames ==
    /\ pc = "hostnames"
    /\ \E raised \in BOOLEAN :
           Ran(Command("hostnames", <<"docker", "inspect">>, raised),
               "yield", "disconnect_container_from_network")

\* The body of the caller's with statement, run on the hostnames yielded,
\* completes or raises.
ComposeBody ==
    /\ pc = "yield"
    /\ \E raised \in BOOLEAN :
           /\ trace' = Append(trace, Command("body", <<>>, raised))
           /\ pending' = IF raised
                         THEN Raise("Exception", <<"raised", "in", "the", "body">>)
                         ELSE pending
    /\ pc' = IF BUILDKITE THEN "disconnect_container_from_network" ELSE "docker_compose_down"
    /\ UNCHANGED <<inputs, called, enumerated, handling, repo_dict, external_pipelines,
                   result, stack>>

\* finally: disconnect_container_from_network(container, network)
DisconnectContainerFromNetwork ==
    /\ pc = "disconnect_container_from_network"
    /\ \E raised \in BOOLEAN :
           Ran(Command("disconnect_container_from_network",
                       disconnect_container_from_network(
                           the_container, resolved_network_name(kwargs, isfile)),
                       raised),
               "docker_compose_down", "docker_compose_down")

\* finally: docker_compose_down(docker_compose_yml, docker_context)
DockerComposeDown ==
    /\ pc = "docker_compose_down"
    /\ \E raised \in BOOLEAN :
           LET argv == docker_compose_down(resolved_docker_compose_yml(kwargs, isfile),
                                           kwargs.docker_context)
           IN  /\ trace' = Append(trace, Command("docker_compose_down", argv, raised))
               /\ pending' = IF raised THEN CalledProcessError(argv) ELSE pending
               /\ result' = IF pending'.raised THEN pending' ELSE Return(None)
    /\ pc' = "done"
    /\ UNCHANGED <<inputs, called, enumerated, handling, repo_dict, external_pipelines,
                   stack>>

\* The arguments of docker_compose().
ComposeArguments ==
    [docker_compose_yml : {None, Text(<<"ci", "docker-compose.yml">>)},
     network_name : {None, PyStr(""), PyStr("net")},
     docker_context : {None, PyStr("ctx")}]

InitCompose ==
    /\ called = "docker_compose"
    /\ kwargs \in ComposeArguments
    /\ BUILDKITE \in BOOLEAN
    /\ isfile \in BOOLEAN
    /\ pc = "start"
    /\ trace = <<>>
    /\ pending = NoException
    /\ result = NotCalled
    /\ workspace_yaml_exists = FALSE
    /\ enumerated = FALSE
    /\ NoSelectionInputs
    /\ NoPythonTarget
    /\ repo_dict = <<>>
    /\ external_pipelines = <<>>
    /\ stack = <<>>
    /\ hierarchy = <<>>
    /\ logged = NoRecord
    /\ record = NoRecord
    /\ logger = 0

NextCompose ==
    \/ DockerComposeUp
    \/ ListContainers
    \/ CurrentContainer
    \/ ConnectContainerToNetwork
    \/ Hostnames
    \/ ComposeBody
    \/ DisconnectContainerFromNetwork
    \/ DockerComposeDown

SpecCompose == InitCompose /\ [][NextCompose]_vars

(***************************************************************************)
(* Vocabulary of the selection properties                                  *)
(*                                                                         *)
(* A selection point is reached when the call got as far as choosing among *)
(* the candidates: always for the three functions that select from a       *)
(* workspace, after the enumeration for a repository origin, after the     *)
(* repository was loaded for a pipeline origin.                            *)
(***************************************************************************)
DoneCall(function) == pc = "done" /\ called = function

CodePointerDictOutcome == _get_code_pointer_dict_from_kwargs(kwargs, targets, loadable).out

RepositoryOriginOutcome ==
    get_repository_python_origin_from_kwargs(kwargs, targets, loadable).out

HasPythonTarget ==
    \E key \in {"python_file", "module_name", "package_name"} : Truthy(kwargs[key])

AtRepositoryOrigin ==
    /\ DoneCall("get_repository_python_origin_from_kwargs")
    /\ HasPythonTarget
    /\ ~(Truthy(kwargs.attribute) /\ ~Truthy(kwargs.repository))
    /\ ~CodePointerDictOutcome.raised

AtPipelineOrigin ==
    /\ DoneCall("get_pipeline_python_origin_from_kwargs")
    /\ ~RepositoryOriginOutcome.raised
    /\ ~recon_repository_get_definition(RepositoryOriginOutcome.value, targets,
                                        loadable, candidates).raised

AtLocation == DoneCall("get_repository_location_from_workspace")
AtRepository == DoneCall("get_external_repository_from_repo_location")
AtPipeline == DoneCall("get_external_pipeline_from_external_repo")

AtSelection ==
    AtRepositoryOrigin \/ AtPipelineOrigin \/ AtLocation \/ AtRepository \/ AtPipeline

\* The names of the candidates at the selection point reached.
SiteNames ==
    IF AtRepositoryOrigin THEN Range(CodePointerDictOutcome.value.keys)
    ELSE Range(candidates)

\* The name requested there (None when none was).
SiteRequested ==
    IF AtRepositoryOrigin THEN kwargs.repository
    ELSE IF AtPipelineOrigin THEN kwargs.pipeline
    ELSE requested

\* The call returned the candidate registered under name.
SelectedCandidate(name) ==
    /\ ~result.raised
    /\ \/ AtLocation /\ result.value = [kind |-> "RepositoryLocation", name |-> name]
       \/ AtRepository /\ result.value = [kind |-> "ExternalRepository", name |-> name]
       \/ AtPipeline /\ result.value = [kind |-> "ExternalPipeline", name |-> name]
       \/ AtPipelineOrigin
            /\ result.value.kind = "PipelinePythonOrigin"
            /\ result.value.pipeline_name = name
       \/ AtRepositoryOrigin
            /\ result.value.kind = "RepositoryPythonOrigin"
            /\ \E i \in DOMAIN targets :
                   /\ targets[i].name = name
                   /\ result.value.code_pointer.attribute = PyStr(targets[i].attribute)

UsageErrorStarting(word) ==
    /\ result.raised
    /\ result.type = "UsageError"
    /\ result.message[1] = word

\* "Must provide --location/--repository/--pipeline as there ..."
AmbiguousSelection == UsageErrorStarting("Must")

\* 'Location/Repository/Pipeline "name" not found ...'
SelectionNotFound ==
    /\ \/ UsageErrorStarting("Location")
       \/ UsageErrorStarting("Repository")
       \/ UsageErrorStarting("Pipeline")
    /\ result.message[3] = "not"

\* "No locations found in workspace"
EmptyFailure == UsageErrorStarting("No")

\* 'Error loading location "name": ...'
LocationLoadError == UsageErrorStarting("Error")

\* check.invariant failed.
InvariantFailure == result.raised /\ result.type = "CheckError"

\* The names a message lists in the form ['a', 'b'].
NamesListedIn(message) ==
    {name \in CandidateNames \cup {"zz"} :
        \E i \in DOMAIN message :
            message[i] \in {open \o "'" \o name \o "'" \o close :
                               open \in {"", "["}, close \in {",", "]", "]."}}}

\* C11 as stated: with no name requested, a sole candidate is returned and
\* several candidates give the ambiguity failure listing exactly their names.
C11_Original ==
    (AtSelection /\ ~AtPipelineOrigin /\ SiteRequested = None) =>
        /\ Cardinality(SiteNames) = 1 => \E name \in SiteNames : SelectedCandidate(name)
        /\ Cardinality(SiteNames) > 1 =>
               AmbiguousSelection /\ NamesListedIn(result.message) = SiteNames

\* C11 (amended): with no name requested, a sole candidate is returned -- a
\* sole location only when its load did not fail, a failed one gives the
\* load error -- and several candidates give the ambiguity failure listing
\* exactly their names.
C11_SoleOrAmbiguous ==
    (AtSelection /\ ~AtPipelineOrigin /\ SiteRequested = None) =>
        /\ Cardinality(SiteNames) = 1 =>
               \E name \in SiteNames :
                   IF AtLocation /\ name \in failed
                   THEN LocationLoadError
                   ELSE SelectedCandidate(name)
        /\ Cardinality(SiteNames) > 1 =>
               AmbiguousSelection /\ NamesListedIn(result.message) = SiteNames

C11_Witness ==
    /\ AtRepository
    /\ requested = None
    /\ candidates = <<"ab", "a", "B">>
    /\ AmbiguousSelection
    /\ NamesListedIn(result.message) = {"a", "B", "ab"}

\* C12: with no candidate at all, a selection fails with a usage error that is
\* neither the ambiguity message nor the not-found message, and never with
\* an internal invariant error, whether or not a name was requested.
C12_EmptyCollectionFailure ==
    (AtSelection /\ SiteNames = {}) =>
        /\ result.raised
        /\ result.type = "UsageError"
        /\ ~AmbiguousSelection
        /\ ~SelectionNotFound

\* C13 as stated: with a name requested, the candidate of that name is
\* returned when there is one, and otherwise the selection fails with the
\* not-found message listing all candidate names, whatever their number.
C13_Original ==
    (AtSelection /\ SiteRequested # None) =>
        IF SiteRequested.s \in SiteNames
        THEN SelectedCandidate(SiteRequested.s)
        ELSE SelectionNotFound /\ NamesListedIn(result.message) = SiteNames

\* C13 (amended): with a name requested, the candidate of that name is
\* returned when there is one -- a location only when its load did not fail,
\* a failed one gives the load error -- and otherwise the selection fails
\* with the not-found message listing all candidate names; with no candidate
\* at all the selection of a repository in a location and of a pipeline in a
\* repository fails with the internal invariant error instead.
C13_RequestedName ==
    (AtSelection /\ SiteRequested # None) =>
        IF (AtRepository \/ AtPipeline) /\ SiteNames = {}
        THEN InvariantFailure
        ELSE IF SiteRequested.s \in SiteNames
        THEN IF AtLocation /\ SiteRequested.s \in failed
             THEN LocationLoadError
             ELSE SelectedCandidate(SiteRequested.s)
        ELSE SelectionNotFound /\ NamesListedIn(result.message) = SiteNames

C13_Witness ==
    /\ AtRepositoryOrigin
    /\ kwargs.repository = PyStr("a")
    /\ Len(targets) = 2
    /\ targets[1].name = "B"
    /\ targets[2].name = "a"
    /\ SelectedCandidate("a")

\* The kind of outcome of a selection.
OutcomeKind(r) ==
    IF ~r.raised THEN "selected"
    ELSE IF r.type = "CheckError" THEN "invariant"
    ELSE IF r.message[1] = "No" THEN "empty"
    ELSE IF r.message[1] = "Must" THEN "ambiguous"
    ELSE IF r.message[1] = "Error" THEN "load error"
    ELSE "not found"

\* C14: on the same candidate names and the same requested name (no location
\* having failed), the selection of a location, of a repository and of a
\* pipeline end in the same kind of outcome.
C14_OneAlgorithm ==
    (pc = "done" /\ called \in SelectionFunctions /\ failed = {}) =>
        LET location == get_repository_location_from_workspace(candidates, {}, requested)
            repository ==
                get_external_repository_from_repo_location("the_location", candidates,
                                                           requested)
            pipeline ==
                get_external_pipeline_from_external_repo("the_repository", candidates,
                                                         requested)
        IN  /\ OutcomeKind(location) = OutcomeKind(repository)
            /\ OutcomeKind(repository) = OutcomeKind(pipeline)

\* a comes before b in the order of the code points of their characters.
LexicallyBefore(a, b) ==
    LET x == Spelling(a)
        y == Spelling(b)
    IN  \E n \in 1..Len(y) :
            /\ n <= Len(x) + 1
            /\ \A i \in 1..(n - 1) : x[i] = y[i]
            /\ n <= Len(x) => Ord(x[n]) < Ord(y[n])

\* The names of S in ascending order.
Ascending(S) ==
    CHOOSE p \in [1..Cardinality(S) -> S] :
        \A i, j \in 1..Cardinality(S) : i < j => LexicallyBefore(p[i], p[j])

\* The text ['a', 'b', 'c'] of the names of S, as words.
ListText(S) ==
    IF S = {} THEN <<"[]">>
    ELSE LET p == Ascending(S)
         IN  [i \in 1..Len(p) |->
                 (IF i = 1 THEN "[" ELSE "") \o "'" \o p[i] \o "'"
                     \o (IF i < Len(p) THEN "," ELSE "]")]

\* The words w stand in message from position at on, a full stop allowed
\* right after the last one.
StandsAt(message, at, w) ==
    /\ at + Len(w) - 1 <= Len(message)
    /\ \A i \in 1..(Len(w) - 1) : message[at + i - 1] = w[i]
    /\ message[at + Len(w) - 1] \in {w[Len(w)], w[Len(w)] \o "."}

\* The same call on the collection iterated in the order q.
SameCallOn(q) ==
    CASE called = "get_repository_location_from_workspace" ->
           get_repository_location_from_workspace(q, failed, requested)
      [] called = "get_external_repository_from_repo_location" ->
           get_external_repository_from_repo_location("the_location", q, requested)
      [] called = "get_external_pipeline_from_external_repo" ->
           get_external_pipeline_from_external_repo("the_repository", q, requested)

\* C15: an ambiguity or not-found message holds the list of the candidate
\* names in ascending order, each in single quotes, separated by commas, in
\* square brackets; and the same names iterated in another order give the
\* same message.
C15_SortedQuotedList ==
    (AtSelection /\ (AmbiguousSelection \/ SelectionNotFound)) =>
        /\ \E at \in DOMAIN result.message :
               StandsAt(result.message, at, ListText(SiteNames))
        /\ called \in SelectionFunctions =>
               \A q \in CandidateLists :
                   Range(q) = Range(candidates) => SameCallOn(q) = result

C15_Witness ==
    /\ AtLocation
    /\ candidates = <<"ab", "a", "B">>
    /\ requested = None
    /\ AmbiguousSelection
    /\ SubSeq(result.message, Len(result.message) - 2, Len(result.message))
           = <<"['B',", "'a',", "'ab']">>

\* C16: the working directory of a python-file target is None when the
\* empty-working-directory flag is set, also next to an explicit working
\* directory; otherwise the explicit working directory when one is given, and
\* otherwise the current directory of the process.  It is None only when the
\* flag is set.
C16_WorkingDirectory ==
    (Succeeded /\ result.value.kind = "PythonFileTarget") =>
        /\ Truthy(kwargs.empty_working_directory) =>
               result.value.working_directory = None
        /\ (~Truthy(kwargs.empty_working_directory) /\ kwargs.working_directory # None) =>
               result.value.working_directory = kwargs.working_directory
        /\ (~Truthy(kwargs.empty_working_directory) /\ kwargs.working_directory = None) =>
               result.value.working_directory = PyStr("/cwd")
        /\ result.value.working_directory = None =>
               Truthy(kwargs.empty_working_directory)

C16_Witness ==
    /\ Succeeded
    /\ result.value.kind = "PythonFileTarget"
    /\ Truthy(kwargs.empty_working_directory)
    /\ kwargs.working_directory = PyStr("/wd")
    /\ result.value.working_directory = None

\* The loadable targets the enumeration yields for the options of the call.
EnumeratedTargets == get_loadable_targets(targets, loadable, kwargs.attribute)

\* The place of the last enumerated target that yields the repository name.
LastYielding(name) ==
    CHOOSE j \in DOMAIN EnumeratedTargets.value :
        /\ EnumeratedTargets.value[j].name = name
        /\ \A k \in DOMAIN EnumeratedTargets.value :
               EnumeratedTargets.value[k].name = name => k <= j

\* C17: the code-pointer dict has exactly one entry for each distinct
\* repository name the enumerated loadable targets yield; the entry of a name
\* that several targets yield holds the pointer built from the last of them;
\* targets that yield the same name raise no failure.
C17_LastWriteWins ==
    DoneCall("_get_code_pointer_dict_from_kwargs") =>
        /\ (~result.raised) =>
               /\ ~EnumeratedTargets.raised
               /\ \A i, j \in DOMAIN result.value.keys :
                      i # j => result.value.keys[i] # result.value.keys[j]
               /\ Range(result.value.keys) =
                      {EnumeratedTargets.value[j].name : j \in DOMAIN EnumeratedTargets.value}
               /\ \A i \in DOMAIN result.value.keys :
                      result.value.val[i].attribute =
                          PyStr(EnumeratedTargets.value[
                                    LastYielding(result.value.keys[i])].attribute)
        /\ result.raised =>
               \/ result.type = "UsageError" /\ result.message = INVALID_CLI_ARGUMENTS_MESSAGE
               \/ result.type = "CheckError" /\ ~HasPythonTarget
               \/ EnumeratedTargets.raised /\ result = EnumeratedTargets

C17_Witness ==
    /\ DoneCall("_get_code_pointer_dict_from_kwargs")
    /\ ~result.raised
    /\ Len(EnumeratedTargets.value) = 2
    /\ EnumeratedTargets.value[1].name = EnumeratedTargets.value[2].name
    /\ Len(result.value.keys) = 1
    /\ result.value.val[1].attribute = PyStr(EnumeratedTargets.value[2].attribute)

PythonTargetsGiven ==
    {key \in {"python_file", "module_name", "package_name"} : Truthy(kwargs[key])}

ExactlyOnePythonTarget == Cardinality(PythonTargetsGiven) = 1

AttributeWithoutRepository == Truthy(kwargs.attribute) /\ ~Truthy(kwargs.repository)

\* The code pointer built directly from the target and the attribute.
DirectCodePointer ==
    IF Truthy(kwargs.python_file) THEN
        [kind |-> "FileCodePointer", python_file |-> kwargs.python_file,
         attribute |-> kwargs.attribute, working_directory |-> ExpectedWorkingDirectory]
    ELSE IF Truthy(kwargs.module_name) THEN
        [kind |-> "ModuleCodePointer", module |-> kwargs.module_name,
         attribute |-> kwargs.attribute]
    ELSE [kind |-> "PackageCodePointer", module |-> kwargs.package_name,
          attribute |-> kwargs.attribute]

ReturnedDirectOrigin ==
    /\ ~result.raised
    /\ result.value.kind = "RepositoryPythonOrigin"
    /\ result.value.code_pointer = DirectCodePointer

\* A working directory given next to a module or a package.
WorkingDirectoryWithoutFile ==
    ~Truthy(kwargs.python_file) /\ Truthy(kwargs.working_directory)

\* C18 as stated: with exactly one of python file, module and package, an
\* attribute without a repository name always gives the origin built directly,
\* without the enumeration; a repository name, or no attribute, always runs
\* the enumeration.
C18_Original ==
    (DoneCall("get_repository_python_origin_from_kwargs") /\ ExactlyOnePythonTarget) =>
        /\ AttributeWithoutRepository => (ReturnedDirectOrigin /\ ~enumerated)
        /\ ~AttributeWithoutRepository => enumerated

\* C18: with exactly one of python file, module and package, and no working
\* directory next to a module or a package, an attribute without a repository
\* name gives the origin built directly from the target, the attribute and, for
\* a file, the resolved working directory, and the enumeration never runs,
\* whether or not it would fail; a repository name, or no attribute, runs the
\* enumeration.  A working directory next to a module or a package fails with
\* the invalid-arguments UsageError before any enumeration, in both cases.
C18_ShortCircuit ==
    (DoneCall("get_repository_python_origin_from_kwargs") /\ ExactlyOnePythonTarget) =>
        /\ (AttributeWithoutRepository /\ ~WorkingDirectoryWithoutFile) =>
               (ReturnedDirectOrigin /\ ~enumerated)
        /\ (~AttributeWithoutRepository /\ ~WorkingDirectoryWithoutFile) => enumerated
        /\ WorkingDirectoryWithoutFile =>
               /\ result = Raise("UsageError", INVALID_CLI_ARGUMENTS_MESSAGE)
               /\ ~enumerated

C18_Witness ==
    /\ DoneCall("get_repository_python_origin_from_kwargs")
    /\ ExactlyOnePythonTarget
    /\ AttributeWithoutRepository
    /\ ~WorkingDirectoryWithoutFile
    /\ EnumeratedTargets.raised
    /\ ReturnedDirectOrigin
    /\ ~enumerated

GivenPipelineName == kwargs.pipeline # None

\* The repository origin of the pipeline origin was built.
BuiltRepositoryOrigin ==
    DoneCall("get_pipeline_python_origin_from_kwargs") /\ ~RepositoryOriginOutcome.raised

SelectedLocations ==
    IF requested # None THEN {requested.s} \cap Range(candidates)
    ELSE IF Len(candidates) = 1 THEN {candidates[1]}
    ELSE {}

\* The words of the message after 'Error loading location "name":'.
ErrorTextOf(message) == SubSeq(message, 5, Len(message))

\* C20: when the location selected, by name or as the sole location, failed to
\* load, get_repository_location_from_workspace fails with the location load
\* error, whose message names the location and carries the text of the
\* underlying error, and returns no location; a location it returns did not
\* fail to load.  Failed locations count among the candidates: they are listed
\* by the ambiguity and the not-found failures and decide between the sole
\* location and several.
C20_FailedLocation ==
    AtLocation =>
        /\ \A name \in SelectedLocations :
               name \in failed =>
                   /\ LocationLoadError
                   /\ result.message[4] = "\"" \o name \o "\":"
                   /\ ErrorTextOf(result.message) = <<"ImportError:", "cannot", "import", name>>
        /\ (~result.raised) =>
               /\ result.value.name \in SelectedLocations
               /\ result.value.name \notin failed
        /\ LocationLoadError => SelectedLocations \cap failed # {}
        /\ (requested = None /\ Len(candidates) > 1) =>
               (AmbiguousSelection /\ NamesListedIn(result.message) = Range(candidates))
        /\ (requested # None /\ SelectedLocations = {}) =>
               (SelectionNotFound
                /\ NamesListedIn(result.message) = Range(candidates))

\* A sole location that failed to load, selected with no name requested.
C20_Witness ==
    /\ AtLocation
    /\ requested = None
    /\ Len(candidates) = 1
    /\ candidates[1] \in failed
    /\ LocationLoadError
    /\ ErrorTextOf(result.message) = <<"ImportError:", "cannot", "import", candidates[1]>>

(***************************************************************************)
(* Vocabulary of the navigation properties                                 *)
(***************************************************************************)
Navigating == called \in NavigationFunctions

\* The places of the trace at which the event happened.
Places(name) == {i \in DOMAIN trace : trace[i].event = name}

\* The places at which the workspace process context was opened.
Openings == {i \in Places("open") : ~trace[i].raised}

Releases == Places("release")

\* The workspace is open at place i: opened before, not released before.
OpenAt(i) ==
    /\ \E o \in Openings : o < i
    /\ \A r \in Releases : r > i

Selections == Places("location") \cup Places("repository") \cup Places("pipeline")

\* C21: for the three commands, a workspace process context that was opened
\* is released exactly once when the command is over, whether the body of the
\* caller completed, or raised, or a selection failed; it is never released
\* without having been opened; the body and every selection run only while it
\* is open; and a command that is unwinding still has a context to leave, so
\* it is never stuck before it is over.
C21_ReleasedExactlyOnce ==
    Navigating =>
        /\ Cardinality(Openings) <= 1
        /\ Cardinality(Releases) <= Cardinality(Openings)
        /\ pc = "done" => Cardinality(Releases) = Cardinality(Openings)
        /\ pc = "done" => stack = <<>>
        /\ \A i \in Places("body") \cup Selections : OpenAt(i)
        /\ pc = "unwind" => stack # <<>>

\* The repository selection failed and the workspace was released once.
C21_Witness ==
    /\ called = "get_external_pipeline_from_kwargs"
    /\ pc = "done"
    /\ \E i \in Places("repository") : trace[i].raised
    /\ Cardinality(Openings) = 1
    /\ Cardinality(Releases) = 1
    /\ result.raised

\* The step succeeded at some place before i.
SucceededBefore(step, i) == \E j \in Places(step) : j < i /\ ~trace[j].raised

\* What the selection of each step gives for the inputs of the command.
LocationOutcome ==
    get_repository_location_from_workspace(candidates, failed, Get(kwargs, "location"))

RepositoryOutcome ==
    get_external_repository_from_repo_location(LocationOutcome.value.name, repo_dict,
                                               Get(kwargs, "repository"))

PipelineOutcome ==
    get_external_pipeline_from_external_repo(RepositoryOutcome.value.name,
                                             external_pipelines, Get(kwargs, "pipeline"))

StepOutcome(step) ==
    IF step = "location" THEN LocationOutcome
    ELSE IF step = "repository" THEN RepositoryOutcome
    ELSE PipelineOutcome

\* C23: in get_external_pipeline_from_kwargs each selection runs at most once;
\* the repository is selected only after the location was selected with
\* success, the pipeline only after the repository was; after a selection that
\* failed nothing runs but the release of the workspace, and the command ends
\* with the failure of that selection; the body of the caller runs only after
\* the three selections succeeded, on the pipeline selected.
C23_SequentialSelections ==
    called = "get_external_pipeline_from_kwargs" =>
        /\ \A step \in {"location", "repository", "pipeline"} :
               Cardinality(Places(step)) <= 1
        /\ \A i \in Places("repository") : SucceededBefore("location", i)
        /\ \A i \in Places("pipeline") : SucceededBefore("repository", i)
        /\ \A i \in Selections :
               trace[i].raised =>
                   /\ \A j \in DOMAIN trace : j > i => trace[j].event = "release"
                   /\ pc = "done" => result = StepOutcome(trace[i].event)
                   /\ StepOutcome(trace[i].event).raised
        /\ \A i \in Places("body") :
               /\ SucceededBefore("location", i)
               /\ SucceededBefore("repository", i)
               /\ SucceededBefore("pipeline", i)
               /\ ~trace[i].raised => result = PipelineOutcome
        /\ pc = "body" =>
               /\ SucceededBefore("pipeline", Len(trace) + 1)
               /\ result = PipelineOutcome

\* The location and the repository were selected, the pipeline was not found.
C23_Witness ==
    /\ called = "get_external_pipeline_from_kwargs"
    /\ pc = "done"
    /\ \E i \in Places("pipeline") :
           /\ trace[i].raised
           /\ SucceededBefore("location", i)
           /\ SucceededBefore("repository", i)
    /\ Places("body") = {}
    /\ result = PipelineOutcome
    /\ result.type = "UsageError"

\* A module or a package without a python file, next to a working directory
\* or the empty-working-directory flag.
StrayWorkingDirectoryOption ==
    /\ ~Truthy(kwargs.python_file)
    /\ Truthy(kwargs.module_name) \/ Truthy(kwargs.package_name)
    /\ Truthy(kwargs.working_directory) \/ Truthy(kwargs.empty_working_directory)

\* C25: for a module or a package without a python file,
\* _get_code_pointer_dict_from_kwargs and
\* get_repository_python_origin_from_kwargs fail with the invalid-arguments
\* UsageError whenever a working directory or the empty-working-directory flag
\* is set, as created_workspace_load_target does for the same options.
C25_SameStrayOptions ==
    ((DoneCall("_get_code_pointer_dict_from_kwargs")
      \/ DoneCall("get_repository_python_origin_from_kwargs"))
     /\ StrayWorkingDirectoryOption) =>
        /\ created_workspace_load_target(kwargs, workspace_yaml_exists) =
               Raise("UsageError", INVALID_CLI_ARGUMENTS_MESSAGE)
        /\ result = Raise("UsageError", INVALID_CLI_ARGUMENTS_MESSAGE)

\* The repository origin a call that succeeded has built.
BuiltOrigin ==
    IF called = "get_pipeline_python_origin_from_kwargs"
    THEN result.value.repository_origin
    ELSE result.value

\* The repository name the enumeration branch selects.
SelectedRepositoryName ==
    IF kwargs.repository # None THEN kwargs.repository.s
    ELSE EnumeratedTargets.value[1].name

\* The code pointer the call builds from its options: from the attribute
\* given on the short-circuit, from the attribute of the loadable target that
\* yields the selected repository otherwise.
BuiltCodePointer ==
    IF AttributeWithoutRepository THEN DirectCodePointer
    ELSE [DirectCodePointer EXCEPT
              !.attribute =
                  PyStr(EnumeratedTargets.value[LastYielding(SelectedRepositoryName)].attribute)]

OriginBuilt ==
    /\ \/ DoneCall("get_repository_python_origin_from_kwargs")
       \/ DoneCall("get_pipeline_python_origin_from_kwargs")
    /\ ~result.raised

Accepted == {i \in Places("filter") : ~trace[i].raised}
Rejected == {i \in Places("filter") : trace[i].raised}

IsDict(dagster_meta) == dagster_meta.k = "dict"

\* The record reaches a logger that carries the DagsterLogHandler.
PassesManagedLogger ==
    \E n \in DOMAIN hierarchy :
        /\ hierarchy[n].managed
        /\ \A m \in 1..(n - 1) : hierarchy[m].propagate

\* C24: a record is converted and forwarded at most once.  The filter lets it
\* through at most once, and every later call of the filter rejects it; the
\* built-in handler and the user-defined logger get it once for each time it
\* was let through; a record the handler converted carries a dict, which the
\* filter rejects.  A record logged with a DagsterEvent or with no
\* dagster_meta is let through by the first handler it meets, so that, having
\* passed any number of loggers that carry the handler, it was forwarded
\* exactly once.
C24_ForwardedOnce ==
    called = "log" =>
        /\ Cardinality(Accepted) <= 1
        /\ Cardinality(Places("handler.handle")) = Cardinality(Accepted)
        /\ Cardinality(Places("logger.log")) = Cardinality(Accepted)
        /\ \A i \in Accepted : \A j \in Places("filter") : j > i => j \in Rejected
        /\ Accepted # {} => (IsDict(record.dagster_meta) /\ ~filter(record))
        /\ ~IsDict(logged.dagster_meta) =>
               /\ \A i \in Rejected : \E j \in Accepted : j < i
               /\ (pc = "done" /\ PassesManagedLogger) =>
                      /\ Cardinality(Places("handler.handle")) = 1
                      /\ Cardinality(Places("logger.log")) = 1
                      /\ record = _convert_record(logged)

\* A DagsterEvent passed several loggers that carry the handler and was
\* forwarded once.
C24_Witness ==
    /\ called = "log"
    /\ pc = "done"
    /\ logged.dagster_meta = DagsterEvent
    /\ Cardinality(Places("filter")) >= 2
    /\ Cardinality(Rejected) >= 1
    /\ Cardinality(Places("handler.handle")) = 1
    /\ Cardinality(Places("logger.log")) = 1

(***************************************************************************)
(* Vocabulary of the docker_compose properties                             *)
(***************************************************************************)
Ups == Places("docker_compose_up")
Downs == Places("docker_compose_down")
Connects == Places("connect_container_to_network")
Disconnects == Places("disconnect_container_from_network")

\* C26: docker_compose_down runs only after docker_compose_up was attempted
\* and at most once, and exactly once when docker_compose is over, whether
\* docker_compose_up failed, the body raised or completed, or any other
\* command failed; the body runs after an up that succeeded and before down.
\* On Buildkite the container is disconnected from the network exactly once
\* when a connect was attempted, also a failed one, never otherwise, always
\* after the connect and before docker_compose_down; off Buildkite nothing is
\* connected.  docker_compose can always go on until it is over.
C26_DownAfterUp ==
    called = "docker_compose" =>
        /\ Cardinality(Ups) <= 1
        /\ Cardinality(Downs) <= 1
        /\ \A d \in Downs : \E u \in Ups : u < d
        /\ (pc = "done" /\ Ups # {}) => Cardinality(Downs) = 1
        /\ \A b \in Places("body") :
               /\ \E u \in Ups : u < b /\ ~trace[u].raised
               /\ \A d \in Downs : b < d
        /\ Cardinality(Disconnects) <= Cardinality(Connects)
        /\ Cardinality(Connects) <= 1
        /\ \A x \in Disconnects : \E c \in Connects : c < x
        /\ \A x \in Disconnects : \A d \in Downs : x < d
        /\ (Downs # {} /\ Connects # {}) => Cardinality(Disconnects) = 1
        /\ Connects # {} => BUILDKITE
        /\ pc # "done" => ENABLED NextCompose

\* On Buildkite the connect failed; the container was disconnected, then
\* docker_compose_down ran.
C26_Witness ==
    /\ called = "docker_compose"
    /\ pc = "done"
    /\ BUILDKITE
    /\ \E c \in Connects : trace[c].raised
    /\ \E x \in Disconnects : \E d \in Downs : x < d
    /\ result.raised

====
